---- MODULE Spec2Model ----
(***************************************************************************)
(* A model of go-clir (src/clir.go): a router for command-line arguments.  *)
(*                                                                         *)
(* Strings are sequences of one-character strings, so that the pattern     *)
(* syntax (whitespace splitting, the angle brackets of a parameter, the    *)
(* digits of a sort hint) is computed the way the code computes it.        *)
(* A uint64 is the set of the positions, in 0..63, of its 1 bits.          *)
(***************************************************************************)
EXTENDS Integers, Sequences, FiniteSets, TLC

VARIABLES routes, builders, cbuilders, last, regs, made, history, help, inflight

vars == <<routes, builders, cbuilders, last, regs, made, history, help, inflight>>

(***************************************************************************)
(* Bounds of the model.                                                    *)
(***************************************************************************)
MaxRoutes == 2
MaxArgv == 3
MaxBuilders == 3
MaxTreeRoutes == 1
MaxRuns == 2
MaxTokens == 3
MaxCalls == 2

(***************************************************************************)
(* Program constants.                                                      *)
(***************************************************************************)
WordBits == 64
MaxSegments == 32

(***************************************************************************)
(* Strings.                                                                *)
(***************************************************************************)
EmptyString == << >>

Space == {" "}

Digits == {"0", "1", "2", "3", "4", "5", "6", "7", "8", "9"}

DigitVal(c) ==
  CASE c = "0" -> 0 [] c = "1" -> 1 [] c = "2" -> 2 [] c = "3" -> 3
    [] c = "4" -> 4 [] c = "5" -> 5 [] c = "6" -> 6 [] c = "7" -> 7
    [] c = "8" -> 8 [] c = "9" -> 9

RECURSIVE FieldsLoop(_, _, _, _)
FieldsLoop(s, i, cur, out) ==
  IF i > Len(s)
    THEN IF cur = EmptyString THEN out ELSE Append(out, cur)
    ELSE IF s[i] \in Space
      THEN FieldsLoop(s, i + 1, EmptyString,
                      IF cur = EmptyString THEN out ELSE Append(out, cur))
      ELSE FieldsLoop(s, i + 1, Append(cur, s[i]), out)

\* strings.Fields: the maximal runs of non-space characters, in order.
Fields(s) == FieldsLoop(s, 1, EmptyString, << >>)

RECURSIVE JoinLoop(_, _, _, _)
JoinLoop(parts, sep, i, out) ==
  IF i > Len(parts) THEN out
  ELSE JoinLoop(parts, sep, i + 1,
                IF i = 1 THEN parts[i] ELSE out \o sep \o parts[i])

\* strings.Join: the parts separated by sep.
Join(parts, sep) == JoinLoop(parts, sep, 1, EmptyString)

HasPrefix(p, c) == Len(p) >= 1 /\ p[1] = c

HasSuffix(p, c) == Len(p) >= 1 /\ p[Len(p)] = c

RECURSIVE DecimalValue(_, _, _)
DecimalValue(ds, i, acc) ==
  IF i > Len(ds) THEN acc
  ELSE DecimalValue(ds, i + 1, 10 * acc + DigitVal(ds[i]))

\* strconv.Atoi: an optional sign followed by one or more decimal digits.
\* (Every token of the model is far shorter than the 19 digits of an int64.)
Atoi(p) ==
  LET signed == Len(p) >= 1 /\ p[1] \in {"+", "-"}
      ds == IF signed THEN Tail(p) ELSE p
      ok == Len(ds) >= 1 /\ \A i \in 1..Len(ds) : ds[i] \in Digits
      mag == IF ok THEN DecimalValue(ds, 1, 0) ELSE 0
  IN [ok |-> ok,
      n |-> IF signed /\ p[1] = "-" THEN 0 - mag ELSE mag]

\* The byte of a character, for the characters of the model's strings.
Byte(c) ==
  CASE c = " " -> 32 [] c = "+" -> 43 [] c = "-" -> 45
    [] c \in Digits -> 48 + DigitVal(c)
    [] c = "<" -> 60 [] c = ">" -> 62 [] c = "?" -> 63
    [] c = "A" -> 65 [] c = "a" -> 97 [] c = "b" -> 98 [] c = "x" -> 120
    [] c = "y" -> 121

\* s < t on strings: the first differing byte decides, and a proper
\* prefix is smaller.
RECURSIVE StringLessLoop(_, _, _)
StringLessLoop(s, t, i) ==
  IF i > Len(t) THEN FALSE
  ELSE IF i > Len(s) THEN TRUE
  ELSE IF s[i] # t[i] THEN Byte(s[i]) < Byte(t[i])
  ELSE StringLessLoop(s, t, i + 1)

StringLess(s, t) == StringLessLoop(s, t, 1)

DigitChar(d) ==
  CASE d = 0 -> "0" [] d = 1 -> "1" [] d = 2 -> "2" [] d = 3 -> "3"
    [] d = 4 -> "4" [] d = 5 -> "5" [] d = 6 -> "6" [] d = 7 -> "7"
    [] d = 8 -> "8" [] d = 9 -> "9"

RECURSIVE DecimalDigits(_)
DecimalDigits(n) ==
  IF n < 10 THEN << DigitChar(n) >>
  ELSE Append(DecimalDigits(n \div 10), DigitChar(n % 10))

\* fmt.Sprintf("%d", n)
Itoa(n) == IF n < 0 THEN << "-" >> \o DecimalDigits(0 - n) ELSE DecimalDigits(n)

\* fmt.Sprintf("%-*s", width, s): s padded with spaces on the right.
PadRight(s, width) ==
  s \o [k \in 1..(IF width > Len(s) THEN width - Len(s) ELSE 0) |-> " "]

(***************************************************************************)
(* 64-bit words.                                                           *)
(***************************************************************************)
Word == 0..(WordBits - 1)

ZeroWord == {}

\* The word holding a two-bit code in its low bits.
CodeWord(code) ==
  { j \in {0, 1} : IF j = 0 THEN code % 2 = 1 ELSE (code \div 2) % 2 = 1 }

\* w << s on a uint64: bits moved past position 63 are lost, and a shift
\* of 64 or more gives 0.
ShiftLeft(w, s) == { j + s : j \in { b \in w : b + s \in Word } }

BitOr(w1, w2) == w1 \cup w2

\* w1 > w2 as unsigned integers: the highest bit in which they differ is
\* set in w1.
WordGreater(w1, w2) ==
  \E j \in w1 \ w2 : \A k \in w2 \ w1 : k < j

\* uint(n): a negative int wraps to 2^64 + n, which as a shift count is at
\* least 64 for every n the model can produce.
Uint(n) == IF n >= 0 THEN n ELSE WordBits

(***************************************************************************)
(* Values.                                                                 *)
(***************************************************************************)
Nil == "nil"

\* A context.Context is the list of what it was made from: its root and
\* the values added to it with context.WithValue, oldest first.  The nil
\* Context is the empty list.
NilContext == << >>

Background == << "context.Background" >>

\* context.WithValue(parent, key, val), for the one key of the tests.
WithValue(parent, val) == Append(parent, val)

NilParams == [isNil |-> TRUE, kv |-> << >>]

EmptyParams == [isNil |-> FALSE, kv |-> << >>]

\* params[name] = arg
ParamsSet(params, name, arg) ==
  [isNil |-> FALSE,
   kv |-> [n \in (DOMAIN params.kv) \cup {name} |->
             IF n = name THEN arg ELSE params.kv[n]]]

NoMatchError == "no matching command"

(***************************************************************************)
(* parseSegments                                                           *)
(***************************************************************************)
Segment(lit, param, sort) == [lit |-> lit, param |-> param, sort |-> sort]

\* Variant: a parameter segment keeps the text of its token as literal.
RECURSIVE parseLoopKeepsText(_, _, _, _)
parseLoopKeepsText(parts, i, pendingSort, segs) ==
  IF i > Len(parts) THEN segs
  ELSE LET p == parts[i]
           a == Atoi(p)
       IN IF a.ok
            THEN parseLoopKeepsText(parts, i + 1, a.n, segs)
            ELSE LET s == IF HasPrefix(p, "<") /\ HasSuffix(p, ">")
                            THEN Segment(p, SubSeq(p, 2, Len(p) - 1), pendingSort)
                            ELSE Segment(p, EmptyString, pendingSort)
                 IN parseLoopKeepsText(parts, i + 1, 0, Append(segs, s))

\* Variant: the pending sort hint is not reset after a segment.
RECURSIVE parseLoopKeepsHint(_, _, _, _)
parseLoopKeepsHint(parts, i, pendingSort, segs) ==
  IF i > Len(parts) THEN segs
  ELSE LET p == parts[i]
           a == Atoi(p)
       IN IF a.ok
            THEN parseLoopKeepsHint(parts, i + 1, a.n, segs)
            ELSE LET s == IF HasPrefix(p, "<") /\ HasSuffix(p, ">")
                            THEN Segment(EmptyString, SubSeq(p, 2, Len(p) - 1), pendingSort)
                            ELSE Segment(p, EmptyString, pendingSort)
                 IN parseLoopKeepsHint(parts, i + 1, pendingSort, Append(segs, s))

\* Variant: an integer token sets the hint and is a literal segment too.
RECURSIVE parseLoopHintAsLiteral(_, _, _, _)
parseLoopHintAsLiteral(parts, i, pendingSort, segs) ==
  IF i > Len(parts) THEN segs
  ELSE LET p == parts[i]
           a == Atoi(p)
       IN IF a.ok
            THEN parseLoopHintAsLiteral(parts, i + 1, a.n,
                                        Append(segs, Segment(p, EmptyString, 0)))
            ELSE LET s == IF HasPrefix(p, "<") /\ HasSuffix(p, ">")
                            THEN Segment(EmptyString, SubSeq(p, 2, Len(p) - 1), pendingSort)
                            ELSE Segment(p, EmptyString, pendingSort)
                 IN parseLoopHintAsLiteral(parts, i + 1, 0, Append(segs, s))

RECURSIVE parseLoop(_, _, _, _)
parseLoop(parts, i, pendingSort, segs) ==
  IF i > Len(parts) THEN segs
  ELSE LET p == parts[i]
           a == Atoi(p)
       IN IF a.ok
            THEN parseLoop(parts, i + 1, a.n, segs)
            ELSE LET s == IF HasPrefix(p, "<") /\ HasSuffix(p, ">")
                            THEN Segment(EmptyString, SubSeq(p, 2, Len(p) - 1), pendingSort)
                            ELSE Segment(p, EmptyString, pendingSort)
                 IN parseLoop(parts, i + 1, 0, Append(segs, s))

parseSegments(parts) == parseLoop(parts, 1, 0, << >>)

(***************************************************************************)
(* route.matchArgv                                                         *)
(***************************************************************************)
NoMatch == [rank |-> ZeroWord, params |-> NilParams]

\* Variant: the placement the code has commented out, rank = (rank << 2) | code.
RECURSIVE matchLoopLowBitsFirst(_, _, _, _, _)
matchLoopLowBitsFirst(segs, argv, i, rank, params) ==
  IF i >= Len(segs) THEN [rank |-> rank, params |-> params]
  ELSE LET s == segs[i + 1]
           arg == argv[i + 1]
       IN CASE s.lit # EmptyString ->
                 IF arg # s.lit THEN NoMatch
                 ELSE matchLoopLowBitsFirst(segs, argv, i + 1,
                                            BitOr(ShiftLeft(rank, 2), CodeWord(2)), params)
            [] s.lit = EmptyString /\ s.param # EmptyString ->
                 matchLoopLowBitsFirst(segs, argv, i + 1,
                                       BitOr(ShiftLeft(rank, 2), CodeWord(1)),
                                       ParamsSet(params, s.param, arg))
            [] OTHER -> NoMatch

\* Variant: a parameter position contributes no code to the rank.
RECURSIVE matchLoopParamUncoded(_, _, _, _, _)
matchLoopParamUncoded(segs, argv, i, rank, params) ==
  IF i >= Len(segs) THEN [rank |-> rank, params |-> params]
  ELSE LET s == segs[i + 1]
           arg == argv[i + 1]
           shift == Uint(2 * (32 - 1 - i))
       IN CASE s.lit # EmptyString ->
                 IF arg # s.lit THEN NoMatch
                 ELSE matchLoopParamUncoded(segs, argv, i + 1,
                                            BitOr(rank, ShiftLeft(CodeWord(2), shift)), params)
            [] s.lit = EmptyString /\ s.param # EmptyString ->
                 matchLoopParamUncoded(segs, argv, i + 1, rank,
                                       ParamsSet(params, s.param, arg))
            [] OTHER -> NoMatch

\* i is the Go index (0-based) of the segment being examined.
\* Variant: the shift counts from 32, not from 31, so that the code of the
\* first position is shifted out of the word.
RECURSIVE matchLoopShiftFromTop(_, _, _, _, _)
matchLoopShiftFromTop(segs, argv, i, rank, params) ==
  IF i >= Len(segs) THEN [rank |-> rank, params |-> params]
  ELSE LET s == segs[i + 1]
           arg == argv[i + 1]
           shift == Uint(2 * (32 - i))
       IN CASE s.lit # EmptyString ->
                 IF arg # s.lit THEN NoMatch
                 ELSE matchLoopShiftFromTop(segs, argv, i + 1,
                                            BitOr(rank, ShiftLeft(CodeWord(2), shift)), params)
            [] s.lit = EmptyString /\ s.param # EmptyString ->
                 matchLoopShiftFromTop(segs, argv, i + 1,
                                       BitOr(rank, ShiftLeft(CodeWord(1), shift)),
                                       ParamsSet(params, s.param, arg))
            [] OTHER -> NoMatch

RECURSIVE matchLoop(_, _, _, _, _)
matchLoop(segs, argv, i, rank, params) ==
  IF i >= Len(segs) THEN [rank |-> rank, params |-> params]
  ELSE LET s == segs[i + 1]
           arg == argv[i + 1]
           shift == Uint(2 * (32 - 1 - i))
       IN CASE s.lit # EmptyString ->
                 IF arg # s.lit THEN NoMatch
                 ELSE matchLoop(segs, argv, i + 1,
                                BitOr(rank, ShiftLeft(CodeWord(2), shift)), params)
            [] s.lit = EmptyString /\ s.param # EmptyString ->
                 matchLoop(segs, argv, i + 1,
                           BitOr(rank, ShiftLeft(CodeWord(1), shift)),
                           ParamsSet(params, s.param, arg))
            [] OTHER -> NoMatch

\* Variant: the segment limit is off by one (>= 32 instead of > 32).
matchArgvOffByOne(rt, argv) ==
  LET segs == rt.segments
  IN IF Len(argv) < Len(segs) THEN NoMatch
     ELSE IF Len(segs) >= MaxSegments THEN NoMatch
     ELSE matchLoop(segs, argv, 0, ZeroWord, EmptyParams)

matchArgv(rt, argv) ==
  LET segs == rt.segments
  IN IF Len(argv) < Len(segs) THEN NoMatch
     ELSE IF Len(segs) > MaxSegments THEN NoMatch
     ELSE matchLoop(segs, argv, 0, ZeroWord, EmptyParams)

(***************************************************************************)
(* Router.bestMatch                                                        *)
(***************************************************************************)
Request(ctx, args, params, extra) ==
  [ctx |-> ctx, Args |-> args, Params |-> params, Extra |-> extra]

\* Variant of Request.Context: the field as it is.
RequestContextRaw(r) == r.ctx

\* Request.Context
RequestContext(r) == IF r.ctx = NilContext THEN Background ELSE r.ctx

\* Variant of Request.WithContext: the copy has no Params.
RequestWithContextDropsParams(r, ctx) == [r EXCEPT !.ctx = ctx, !.Params = NilParams]

\* Request.WithContext: cp := *r; cp.ctx = ctx; return &cp
RequestWithContext(r, ctx) == [r EXCEPT !.ctx = ctx]

NoRequest == Request(NilContext, << >>, NilParams, << >>)

BestInit ==
  [bestIdx |-> -1, bestRank |-> ZeroWord, bestParams |-> NilParams, bestExtra |-> << >>]

\* Variant: the first matching route wins, whatever its rank.
RECURSIVE bestLoopFirstMatch(_, _, _, _)
bestLoopFirstMatch(rs, argv, i, best) ==
  IF i >= Len(rs) THEN best
  ELSE LET rt == rs[i + 1]
           m == matchArgv(rt, argv)
           extra == SubSeq(argv, Len(rt.segments) + 1, Len(argv))
       IN IF m.rank = ZeroWord
            THEN bestLoopFirstMatch(rs, argv, i + 1, best)
            ELSE IF best.bestIdx = -1
              THEN bestLoopFirstMatch(rs, argv, i + 1,
                     [bestIdx |-> i, bestRank |-> m.rank, bestParams |-> m.params,
                      bestExtra |-> extra])
              ELSE bestLoopFirstMatch(rs, argv, i + 1, best)

\* Variant: the comparison is >= instead of >.
RECURSIVE bestLoopLastTie(_, _, _, _)
bestLoopLastTie(rs, argv, i, best) ==
  IF i >= Len(rs) THEN best
  ELSE LET rt == rs[i + 1]
           m == matchArgv(rt, argv)
           extra == SubSeq(argv, Len(rt.segments) + 1, Len(argv))
       IN IF m.rank = ZeroWord
            THEN bestLoopLastTie(rs, argv, i + 1, best)
            ELSE IF best.bestIdx = -1 \/ ~WordGreater(best.bestRank, m.rank)
              THEN bestLoopLastTie(rs, argv, i + 1,
                     [bestIdx |-> i, bestRank |-> m.rank, bestParams |-> m.params,
                      bestExtra |-> extra])
              ELSE bestLoopLastTie(rs, argv, i + 1, best)

\* Variant: the params of every matching route examined overwrite bestParams.
RECURSIVE bestLoopLeakParams(_, _, _, _)
bestLoopLeakParams(rs, argv, i, best) ==
  IF i >= Len(rs) THEN best
  ELSE LET rt == rs[i + 1]
           m == matchArgv(rt, argv)
           extra == SubSeq(argv, Len(rt.segments) + 1, Len(argv))
       IN IF m.rank = ZeroWord
            THEN bestLoopLeakParams(rs, argv, i + 1, best)
            ELSE IF best.bestIdx = -1 \/ WordGreater(m.rank, best.bestRank)
              THEN bestLoopLeakParams(rs, argv, i + 1,
                     [bestIdx |-> i, bestRank |-> m.rank, bestParams |-> m.params,
                      bestExtra |-> extra])
              ELSE bestLoopLeakParams(rs, argv, i + 1, [best EXCEPT !.bestParams = m.params])

\* Variant: the leftover of every matching route examined overwrites bestExtra.
RECURSIVE bestLoopLeakExtra(_, _, _, _)
bestLoopLeakExtra(rs, argv, i, best) ==
  IF i >= Len(rs) THEN best
  ELSE LET rt == rs[i + 1]
           m == matchArgv(rt, argv)
           extra == SubSeq(argv, Len(rt.segments) + 1, Len(argv))
       IN IF m.rank = ZeroWord
            THEN bestLoopLeakExtra(rs, argv, i + 1, best)
            ELSE IF best.bestIdx = -1 \/ WordGreater(m.rank, best.bestRank)
              THEN bestLoopLeakExtra(rs, argv, i + 1,
                     [bestIdx |-> i, bestRank |-> m.rank, bestParams |-> m.params,
                      bestExtra |-> extra])
              ELSE bestLoopLeakExtra(rs, argv, i + 1, [best EXCEPT !.bestExtra = extra])

\* Variant: a route of rank zero is not skipped.
RECURSIVE bestLoopNoSkip(_, _, _, _)
bestLoopNoSkip(rs, argv, i, best) ==
  IF i >= Len(rs) THEN best
  ELSE LET rt == rs[i + 1]
           m == matchArgv(rt, argv)
           extra == SubSeq(argv, Len(rt.segments) + 1, Len(argv))
       IN IF FALSE
            THEN bestLoopNoSkip(rs, argv, i + 1, best)
            ELSE IF best.bestIdx = -1 \/ WordGreater(m.rank, best.bestRank)
              THEN bestLoopNoSkip(rs, argv, i + 1,
                     [bestIdx |-> i, bestRank |-> m.rank, bestParams |-> m.params,
                      bestExtra |-> extra])
              ELSE bestLoopNoSkip(rs, argv, i + 1, best)

\* i is the Go index (0-based) of the route being examined.
RECURSIVE bestLoop(_, _, _, _)
bestLoop(rs, argv, i, best) ==
  IF i >= Len(rs) THEN best
  ELSE LET rt == rs[i + 1]
           m == matchArgv(rt, argv)
       IN IF m.rank = ZeroWord
            THEN bestLoop(rs, argv, i + 1, best)
            ELSE IF best.bestIdx = -1 \/ WordGreater(m.rank, best.bestRank)
              THEN bestLoop(rs, argv, i + 1,
                            [bestIdx |-> i, bestRank |-> m.rank, bestParams |-> m.params,
                             bestExtra |-> SubSeq(argv, Len(rt.segments) + 1, Len(argv))])
              ELSE bestLoop(rs, argv, i + 1, best)

bestMatch(rs, ctx, argv) ==
  LET c == IF ctx = NilContext THEN Background ELSE ctx
      best == bestLoop(rs, argv, 0, BestInit)
  IN IF best.bestIdx = -1
       THEN [ok |-> FALSE, idx |-> -1, req |-> NoRequest]
       ELSE [ok |-> TRUE, idx |-> best.bestIdx,
             req |-> Request(c, argv, best.bestParams, best.bestExtra)]

(***************************************************************************)
(* Handlers, middleware and resolvers.                                     *)
(*                                                                         *)
(* A Handler is a closure.  It is represented by the list of its layers,   *)
(* outermost first: the middleware closures wrapped around it and, last,   *)
(* the function they wrap.  That function is the user's handler, or the    *)
(* closure that resolves a typed context and calls the user's typed        *)
(* handler.  Entering it appends "handler" to the trace; the body of a     *)
(* typed handler appends "body".  A user function returns its fixed        *)
(* result.  A middleware is the logging middleware of the tests: it        *)
(* appends "before", calls next, appends "after" and returns next's        *)
(* result.                                                                 *)
(*                                                                         *)
(* A Resolver is a closure too: the list of the user's resolver functions  *)
(* it calls, the root one first.  A user resolver appends "resolve" and    *)
(* returns its fixed error or a value.  A value names the function that    *)
(* made it and what it was made from, so that two values are equal only    *)
(* if they were made the same way.  A call is recorded with the list of    *)
(* the values handed to it.                                                *)
(***************************************************************************)
NoResolver == << >>

Value(by, from) == [by |-> by, from |-> from]

\* var zero T
ZeroValue == Value("zero", << >>)

NoValue == << >>

\* ParentChild[T, U]{parent, child} and its accessors.
ParentChild(parent, child) == Value("ParentChild", << parent, child >>)

Parent(pc) == pc.from[1]

ChildOf(pc) == pc.from[2]

UserHandler(id, ret) ==
  << [kind |-> "user", id |-> id, ret |-> ret, resolve |-> NoResolver] >>

ContextHandler(id, ret) == [id |-> id, ret |-> ret]

\* A user resolver.  pair tells the resolver that WithParentChildContext
\* wraps around it from the plain one.
UserResolver(id, err) == [id |-> id, err |-> err, pair |-> FALSE]

\* func(parent, req) { child, err := resolveChild(parent, req);
\*   if err != nil { return zero, err }; return ParentChild{parent, child}, nil }
PairResolver(resolveChild) == [resolveChild EXCEPT !.pair = TRUE]

LogMiddleware(id) == [kind |-> "mw", id |-> id, ret |-> Nil, resolve |-> NoResolver]

\* The middleware of TestMiddlewareIsolationBetweenBranches, which calls
\* next on req.WithContext(context.WithValue(req.Context(), key, label)),
\* and one that calls next on req.WithContext(nil).  Both append "before"
\* and "after" with the Request they were called on.
InjectMiddleware(label) ==
  [kind |-> "inject", id |-> label, ret |-> Nil, resolve |-> NoResolver]

ClearMiddleware(id) ==
  [kind |-> "clear", id |-> id, ret |-> Nil, resolve |-> NoResolver]

\* The Request a middleware calls next on.
Downstream(mw, req) ==
  CASE mw.kind = "inject" ->
         RequestWithContext(req, WithValue(RequestContext(req), mw.id))
    [] mw.kind = "clear" -> RequestWithContext(req, NilContext)
    [] OTHER -> req

\* mw(next): the handler that runs mw around next.
ApplyMiddleware(mw, next) == << mw >> \o next

\* func(req) { ctxObj, err := resolve(req); if err != nil { return err };
\*             return h(req, ctxObj) }
BaseHandler(resolve, h) ==
  << [kind |-> "typed", id |-> h.id, ret |-> h.ret, resolve |-> resolve] >>

\* One entry of the trace of a dispatch.  err is what next returned to a
\* middleware, in its "after" entry, and Nil in every other entry.
Event(ev, id, req, val) ==
  [ev |-> ev, id |-> id, req |-> req, val |-> val, err |-> Nil]

\* WithContextHandler(resolve, h): the same closure, over one resolver.
WithContextHandler(resolve, h) ==
  << [kind |-> "typed", id |-> h.id, ret |-> h.ret, resolve |-> << resolve >>] >>

\* Variant: the pair is built the wrong way round.
ResolveChildSwapsPair(r, parent, req) ==
  LET call == << Event("resolve", r.id, req, << parent >>) >>
      child == Value(r.id, << parent >>)
  IN IF r.err # Nil
       THEN [calls |-> call, val |-> ZeroValue, err |-> r.err]
       ELSE [calls |-> call,
             val |-> IF r.pair THEN ParentChild(child, parent) ELSE child,
             err |-> Nil]

\* resolve(parent, req) for a resolver handed to WithChildContext.
ResolveChild(r, parent, req) ==
  LET call == << Event("resolve", r.id, req, << parent >>) >>
      child == Value(r.id, << parent >>)
  IN IF r.err # Nil
       THEN [calls |-> call, val |-> ZeroValue, err |-> r.err]
       ELSE [calls |-> call,
             val |-> IF r.pair THEN ParentChild(parent, child) ELSE child,
             err |-> Nil]

\* Variant: the child resolver is called though the parent failed.
RECURSIVE ResolveChainNoShortCircuit(_, _, _)
ResolveChainNoShortCircuit(chain, n, req) ==
  IF n = 1
    THEN [calls |-> << Event("resolve", chain[1].id, req, NoValue) >>,
          val |-> IF chain[1].err = Nil THEN Value(chain[1].id, << >>) ELSE ZeroValue,
          err |-> chain[1].err]
    ELSE LET parent == ResolveChainNoShortCircuit(chain, n - 1, req)
             child == ResolveChild(chain[n], parent.val, req)
         IN [calls |-> parent.calls \o child.calls, val |-> child.val,
             err |-> IF parent.err # Nil THEN parent.err ELSE child.err]

\* Variant: the child resolver gets the zero value, not the parent's.
RECURSIVE ResolveChainDropsParent(_, _, _)
ResolveChainDropsParent(chain, n, req) ==
  IF n = 1
    THEN [calls |-> << Event("resolve", chain[1].id, req, NoValue) >>,
          val |-> IF chain[1].err = Nil THEN Value(chain[1].id, << >>) ELSE ZeroValue,
          err |-> chain[1].err]
    ELSE LET parent == ResolveChainDropsParent(chain, n - 1, req)
         IN IF parent.err # Nil
              THEN [calls |-> parent.calls, val |-> ZeroValue, err |-> parent.err]
              ELSE LET child == ResolveChild(chain[n], ZeroValue, req)
                   IN [calls |-> parent.calls \o child.calls,
                       val |-> child.val, err |-> child.err]

\* resolve(req) for the closure made of the first n resolvers of chain:
\* the parent closure first and, unless it fails, the n-th resolver on the
\* parent's value.
RECURSIVE ResolveChain(_, _, _)
ResolveChain(chain, n, req) ==
  IF n = 1
    THEN [calls |-> << Event("resolve", chain[1].id, req, NoValue) >>,
          val |-> IF chain[1].err = Nil THEN Value(chain[1].id, << >>) ELSE ZeroValue,
          err |-> chain[1].err]
    ELSE LET parent == ResolveChain(chain, n - 1, req)
         IN IF parent.err # Nil
              THEN [calls |-> parent.calls, val |-> ZeroValue, err |-> parent.err]
              ELSE LET child == ResolveChild(chain[n], parent.val, req)
                   IN [calls |-> parent.calls \o child.calls,
                       val |-> child.val, err |-> child.err]

\* Variant: the typed handler runs though the resolver failed.
RECURSIVE InvokeIgnoresResolverError(_, _)
InvokeIgnoresResolverError(h, req) ==
  LET top == Head(h)
  IN CASE top.kind = "user" ->
            [calls |-> << Event("handler", top.id, req, NoValue) >>, err |-> top.ret]
       [] top.kind = "typed" ->
            LET r == ResolveChain(top.resolve, Len(top.resolve), req)
                enter == << Event("handler", top.id, req, NoValue) >>
            IN [calls |-> (enter \o r.calls)
                            \o << Event("body", top.id, req, << r.val >>) >>,
                err |-> top.ret]
       [] top.kind \in {"mw", "inject", "clear"} ->
            LET inner == InvokeIgnoresResolverError(Tail(h), Downstream(top, req))
            IN [calls |-> << Event("before", top.id, req, NoValue) >>
                            \o inner.calls
                            \o << [Event("after", top.id, req, NoValue) EXCEPT !.err = inner.err] >>,
                err |-> inner.err]

\* h(req): the trace of calls it produces and the error it returns.
RECURSIVE Invoke(_, _)
Invoke(h, req) ==
  LET top == Head(h)
  IN CASE top.kind = "user" ->
            [calls |-> << Event("handler", top.id, req, NoValue) >>, err |-> top.ret]
       [] top.kind = "typed" ->
            LET r == ResolveChain(top.resolve, Len(top.resolve), req)
                enter == << Event("handler", top.id, req, NoValue) >>
            IN IF r.err # Nil
                 THEN [calls |-> enter \o r.calls, err |-> r.err]
                 ELSE [calls |-> (enter \o r.calls)
                                   \o << Event("body", top.id, req, << r.val >>) >>,
                       err |-> top.ret]
       [] top.kind \in {"mw", "inject", "clear"} ->
            LET inner == Invoke(Tail(h), Downstream(top, req))
            IN [calls |-> << Event("before", top.id, req, NoValue) >>
                            \o inner.calls
                            \o << [Event("after", top.id, req, NoValue) EXCEPT !.err = inner.err] >>,
                err |-> inner.err]

(***************************************************************************)
(* Inputs.                                                                 *)
(***************************************************************************)
SP == << " " >>

tokA == << "a" >>
tokB == << "b" >>
tokUpperA == << "A" >>
tokX == << "<", "x", ">" >>
tokNoName == << "<", ">" >>

Repeat(n, t) == [i \in 1..n |-> t]

SeqsUpTo(S, n) == UNION { [1..k -> S] : k \in 0..n }

\* The patterns passed to Router.Handle under Spec.
Patterns ==
  { EmptyString,
    Join(<< tokA >>, SP),
    Join(<< tokA, tokB >>, SP),
    Join(<< tokA, tokX >>, SP),
    Join(<< tokA, tokX, tokX >>, SP),
    Join(<< tokX, tokB >>, SP),
    Join(<< tokA, tokNoName >>, SP) }

\* The patterns passed to Router.Handle under WideSpec: routes at and
\* around the limit of 32 segments.
WidePatterns ==
  { EmptyString,
    Join(<< tokA, tokNoName >>, SP),
    Join(Repeat(MaxSegments, tokA), SP),
    Join(Append(Repeat(MaxSegments - 1, tokA), tokX), SP),
    Join(Repeat(MaxSegments + 1, tokA), SP) }

\* The tokens of the patterns under ParseSpec: a literal, a parameter,
\* three integers, a literal that begins with a digit and a parameter
\* without a name.
tokOne == << "1" >>
tokMinusTwo == << "-", "2" >>
tokPlusTen == << "+", "1", "0" >>
tokOneA == << "1", "a" >>

ParseTokens == { tokA, tokX, tokOne, tokMinusTwo, tokPlusTen, tokOneA, tokNoName }

ParsePatterns == { Join(ts, SP) : ts \in SeqsUpTo(ParseTokens, MaxTokens) }

\* The patterns under HintSpec, with and without sort hints.
HintPatterns ==
  { Join(<< tokA >>, SP),
    Join(<< tokOne, tokA >>, SP),
    Join(<< tokA, tokMinusTwo, tokX >>, SP),
    Join(<< tokX, tokB >>, SP),
    Join(<< tokOne, tokA, tokPlusTen, tokOne, tokB >>, SP) }

\* The patterns under HelpSpec: with and without sort hints, one of them
\* negative, and with parameters before and after a literal.
HelpPatterns ==
  { Join(<< tokA >>, SP),
    Join(<< tokB >>, SP),
    Join(<< tokOne, tokA >>, SP),
    Join(<< tokMinusTwo, tokB >>, SP),
    Join(<< tokX, tokA >>, SP),
    Join(<< tokA, tokX >>, SP) }

\* The patterns and the argv of the concurrent calls: each argv selects
\* another route, with other Params and Extra.
ConcurrentPatterns == { Join(<< tokA >>, SP), Join(<< tokX >>, SP) }

ConcurrentArgvs == { << tokA >>, << tokB, tokA >> }

\* The paths and patterns under KindSpec: the tokens "<>", "<" and ">"
\* next to a literal, a parameter and a sort hint.
tokLess == << "<" >>
tokGreater == << ">" >>

KindRoutePaths == { Join(<< tokNoName >>, SP), Join(<< tokLess >>, SP) }

KindHandlePaths ==
  { Join(<< tokGreater >>, SP),
    Join(<< tokNoName >>, SP),
    Join(<< tokX >>, SP),
    Join(<< tokA, tokOne, tokLess >>, SP) }

KindPatterns ==
  { Join(<< tokNoName >>, SP),
    Join(<< tokLess >>, SP),
    Join(<< tokGreater >>, SP),
    Join(<< tokOne, tokNoName, tokA >>, SP),
    Join(<< tokX, tokLess, tokGreater >>, SP) }

\* The patterns and argv under RankSpec: routes of the same kinds with
\* other literals, parameter names and sort hints, and routes of 32
\* segments.
tokY == << "<", "y", ">" >>

RankPatterns ==
  { Join(<< tokA, tokX >>, SP),
    Join(<< tokMinusTwo, tokA, tokY >>, SP),
    Join(<< tokB, tokX >>, SP),
    Join(<< tokX, tokA >>, SP),
    Join(Repeat(MaxSegments, tokA), SP),
    Join(Append(Repeat(MaxSegments - 1, tokA), tokX), SP) }

RankArgvs ==
  { << tokA, tokB >>,
    << tokB, tokA >>,
    << tokA, tokA, tokB >>,
    Repeat(MaxSegments, tokA),
    Append(Repeat(MaxSegments - 1, tokA), tokB) }

\* The middleware lists under OnionSpec: a logging and an injecting
\* middleware, in both orders.
OnionMiddlewareLists ==
  { << LogMiddleware("m1"), InjectMiddleware("A") >>,
    << InjectMiddleware("A"), LogMiddleware("m2") >> }

\* The patterns and paths under ZeroSpec: the empty pattern, one of
\* spaces, one of integer tokens, and a literal.
ZeroPatterns ==
  { EmptyString,
    SP \o SP,
    Join(<< tokOne, tokMinusTwo >>, SP),
    Join(<< tokA >>, SP) }

ZeroPaths == { EmptyString, Join(<< tokA >>, SP) }

\* The relative paths passed to the builders.
Paths ==
  { Join(<< tokA >>, SP),
    Join(<< tokX >>, SP) }

\* The relative paths passed to Handle under TreeSpec: those, and one of
\* two segments with a sort hint and spaces to spare, " a  1 <x> ".
HandlePaths ==
  Paths \cup { SP \o tokA \o SP \o SP \o << "1" >> \o SP \o tokX \o SP }

Descs == { "desc" }

Handlers == { UserHandler("h1", Nil), UserHandler("h2", "e2") }

TreeHandlers == { UserHandler("h2", "e2") }

ContextHandlers == { ContextHandler("t1", "e3") }

Resolvers == { UserResolver("r1", Nil), UserResolver("r2", "boom") }

\* The resolvers of the typed layers under TypedSpec: two that succeed and
\* one that fails.
ChainResolvers == Resolvers \cup { UserResolver("r3", Nil) }

\* The one path and the arguments of Run under TypedSpec: the route
\* matches the first and not the second.
TypedPaths == { Join(<< tokA >>, SP) }

TypedArgvs == { << tokA >>, << tokB >> }

MiddlewareLists ==
  { << LogMiddleware("m1") >>, << LogMiddleware("m2"), LogMiddleware("m1") >> }

\* The middleware lists passed to With under ContextSpec.
ContextMiddlewareLists ==
  { << InjectMiddleware("A") >>, << ClearMiddleware("n") >> }

\* The pattern of the route registered directly under ContextSpec.
ContextPatterns == { Join(<< tokB >>, SP) }

Contexts == { NilContext, << "ctx1" >> }

\* Where the choice of context is of no interest.
OneContext == { << "ctx1" >> }

ArgTokens == { tokA, tokB }

Argvs == SeqsUpTo(ArgTokens, MaxArgv)

WideArgvs ==
  SeqsUpTo(ArgTokens, MaxArgv) \cup
  { Repeat(MaxSegments, tokA),
    Append(Repeat(MaxSegments - 1, tokA), tokB),
    Append(Repeat(MaxSegments - 1, tokA), tokUpperA),
    << tokB >> \o Repeat(MaxSegments - 1, tokA),
    Repeat(MaxSegments + 1, tokA),
    Append(Repeat(MaxSegments, tokA), tokB) }


\* The arguments of Run under BuilderSpec, whose routes are made of the
\* tokens of Paths.
TreeArgvs == { Repeat(n, tokA) : n \in 0..MaxArgv }

(***************************************************************************)
(* State.                                                                  *)
(*   routes    Router.routes                                               *)
(*   builders  the Builder values created so far                           *)
(*   cbuilders the ContextBuilder values created so far                    *)
(*   last      the most recent Run: its inputs, the route table it saw,    *)
(*             the rank matchArgv gives each route, what bestMatch         *)
(*             returned, the calls made and Run's result                   *)
(*   regs      for each route of the table, the call that registered it:   *)
(*             the arguments of Handle and, for Builder.Handle, the        *)
(*             builder it was called on                                    *)
(*   made      for each builder constructed, what it was constructed as    *)
(*             and its trail: the calls that led to it from Router.Routes  *)
(*   history   the calls of user code observed so far, grouped by the      *)
(*             call of the package during which they were made             *)
(***************************************************************************)
Route(segs, h, desc) == [segments |-> segs, handler |-> h, desc |-> desc]

Builder(prefix, mws) == [prefix |-> prefix, mws |-> mws]

Registration(via, b, path, h) == [via |-> via, builder |-> b, path |-> path, h |-> h]

\* One step of a trail.  A field the call has no use for is empty.
Step(op, path, mws, resolve) == [op |-> op, path |-> path, mws |-> mws, resolve |-> resolve]

\* A builder as constructed: a Builder (typed = FALSE, no resolver) or a
\* ContextBuilder over base.
Made(base, resolve, typed, trail) ==
  [base |-> base, resolve |-> resolve, typed |-> typed, trail |-> trail]

\* idx is the Go index of the route a dispatch selected, -1 without one.
Observed(op, idx, calls) == [op |-> op, idx |-> idx, calls |-> calls]

\* One line of the output.  idx is the position in the table of the route
\* an entry line was made from (0 for the other lines).
Line(kind, idx, pat, desc) == [kind |-> kind, idx |-> idx, pat |-> pat, desc |-> desc]

\* What PrintHelp wrote, and the number of routes there were.
Help(n, lines) == [called |-> TRUE, n |-> n, lines |-> lines]

NoHelp == [called |-> FALSE, n |-> 0, lines |-> << >>]

\* The concurrent calls of Run, and what one of them holds: where it is
\* (idle, in the loop of bestMatch, done), its arguments, the index i of
\* the loop, the locals bestIdx, bestRank, bestParams and bestExtra, and
\* what it selected, handed to the handler and returned.  mixed records
\* that the call took a step while another one was inside its loop.
Calls == 1..MaxCalls

Frame(pc, ctx, argv, i, best, mixed, result) ==
  [pc |-> pc, ctx |-> ctx, argv |-> argv, i |-> i, best |-> best, mixed |-> mixed,
   result |-> result]

NoResult == [ok |-> FALSE, idx |-> -1, req |-> NoRequest, calls |-> << >>, err |-> Nil]

Idle == Frame("idle", NilContext, << >>, 0, BestInit, FALSE, NoResult)

NoRun ==
  [called |-> FALSE, routes |-> << >>, ranks |-> << >>, ctx |-> NilContext, argv |-> << >>,
   ok |-> FALSE, idx |-> -1, req |-> NoRequest, calls |-> << >>, err |-> Nil]

Init ==
  /\ routes = << >>
  /\ builders = {}
  /\ cbuilders = {}
  /\ last = NoRun
  /\ regs = << >>
  /\ made = {}
  /\ history = << >>
  /\ help = NoHelp
  /\ inflight = [c \in Calls |-> Idle]

(***************************************************************************)
(* Router.Handle                                                           *)
(***************************************************************************)
\* Variant: a pattern that is registered already is not added again.
RouterHandleRejectsDuplicate(rs, pattern, desc, h) ==
  LET parts == Fields(pattern)
      segs == parseSegments(parts)
  IN IF \E i \in 1..Len(rs) : rs[i].segments = segs
       THEN rs
       ELSE Append(rs, Route(segs, h, desc))

RouterHandle(rs, pattern, desc, h) ==
  LET parts == Fields(pattern)
      segs == parseSegments(parts)
  IN Append(rs, Route(segs, h, desc))

Handle(pattern, desc, h) ==
  /\ Len(routes) < MaxRoutes
  /\ routes' = RouterHandle(routes, pattern, desc, h)
  /\ regs' = Append(regs, Registration("Router", Builder(<< >>, << >>), pattern, h))
  /\ UNCHANGED <<builders, cbuilders, last, made, history, help, inflight>>

(***************************************************************************)
(* Router.Run                                                              *)
(*                                                                         *)
(* Run changes neither the route table nor a builder, and last keeps the   *)
(* most recent dispatch only, so every state a sequence of dispatches      *)
(* reaches is reached by its final dispatch alone: a behaviour dispatches  *)
(* once.                                                                   *)
(***************************************************************************)
\* The rank matchArgv gives each route of the table for argv.
Ranks(rs, argv) == [i \in 1..Len(rs) |-> matchArgv(rs[i], argv).rank]

\* Variant: Run calls the handler and returns nil.
RunResultDropsError(rs, ctx, argv) ==
  LET bm == bestMatch(rs, ctx, argv)
  IN IF ~bm.ok
       THEN [called |-> TRUE, routes |-> rs, ranks |-> Ranks(rs, argv), ctx |-> ctx, argv |-> argv,
             ok |-> FALSE, idx |-> -1, req |-> NoRequest,
             calls |-> << >>, err |-> NoMatchError]
       ELSE LET r == Invoke(rs[bm.idx + 1].handler, bm.req)
            IN [called |-> TRUE, routes |-> rs, ranks |-> Ranks(rs, argv), ctx |-> ctx, argv |-> argv,
                ok |-> TRUE, idx |-> bm.idx, req |-> bm.req,
                calls |-> r.calls, err |-> Nil]

RunResult(rs, ctx, argv) ==
  LET bm == bestMatch(rs, ctx, argv)
  IN IF ~bm.ok
       THEN [called |-> TRUE, routes |-> rs, ranks |-> Ranks(rs, argv), ctx |-> ctx, argv |-> argv,
             ok |-> FALSE, idx |-> -1, req |-> NoRequest,
             calls |-> << >>, err |-> NoMatchError]
       ELSE LET r == Invoke(rs[bm.idx + 1].handler, bm.req)
            IN [called |-> TRUE, routes |-> rs, ranks |-> Ranks(rs, argv), ctx |-> ctx, argv |-> argv,
                ok |-> TRUE, idx |-> bm.idx, req |-> bm.req,
                calls |-> r.calls, err |-> r.err]

Run(ctx, argv) ==
  /\ ~last.called
  /\ last' = RunResult(routes, ctx, argv)
  /\ history' = Append(history, Observed("Run", last'.idx, last'.calls))
  /\ UNCHANGED <<routes, builders, cbuilders, regs, made, help, inflight>>

\* Variant: a dispatch that selects the route the dispatch before it
\* selected calls no resolver again.
RunAgainCached(ctx, argv) ==
  /\ last.called
  /\ Len(history) < MaxRuns
  /\ LET r == RunResult(routes, ctx, argv)
         IsKept(e) == e.ev # "resolve"
     IN last' = IF r.ok /\ r.idx = last.idx
                  THEN [r EXCEPT !.calls = SelectSeq(r.calls, IsKept)]
                  ELSE r
  /\ history' = Append(history, Observed("Run", last'.idx, last'.calls))
  /\ UNCHANGED <<routes, builders, cbuilders, regs, made, help, inflight>>

\* A further dispatch, where a behaviour dispatches more than once.
RunAgain(ctx, argv) ==
  /\ last.called
  /\ Len(history) < MaxRuns
  /\ last' = RunResult(routes, ctx, argv)
  /\ history' = Append(history, Observed("Run", last'.idx, last'.calls))
  /\ UNCHANGED <<routes, builders, cbuilders, regs, made, help, inflight>>

(***************************************************************************)
(* Concurrent calls of Run, one iteration of the loop of bestMatch at a    *)
(* time.  The table is shared and only read; everything else a call uses   *)
(* is local to it.                                                         *)
(***************************************************************************)
\* One iteration of the loop of bestMatch: route i (0-based) against argv.
bestIteration(rs, argv, i, best) ==
  LET rt == rs[i + 1]
      m == matchArgv(rt, argv)
  IN IF m.rank = ZeroWord THEN best
     ELSE IF best.bestIdx = -1 \/ WordGreater(m.rank, best.bestRank)
       THEN [bestIdx |-> i, bestRank |-> m.rank, bestParams |-> m.params,
             bestExtra |-> SubSeq(argv, Len(rt.segments) + 1, Len(argv))]
       ELSE best

\* Another call is inside its loop.
Overlaps(frames, c) == \E d \in DOMAIN frames : d # c /\ frames[d].pc = "scan"

\* Variant: bestIdx, bestRank, bestParams and bestExtra are shared by the
\* calls, as fields of the Router would be.
bestStepSharedScratch(frames, c, rs) ==
  LET f == frames[c]
      best == bestIteration(rs, f.argv, f.i, f.best)
  IN [d \in DOMAIN frames |->
        IF d = c
          THEN [f EXCEPT !.best = best, !.i = f.i + 1,
                         !.mixed = f.mixed \/ Overlaps(frames, c)]
          ELSE [frames[d] EXCEPT !.best = best]]

\* Call c runs one iteration of its loop.
bestStep(frames, c, rs) ==
  LET f == frames[c]
  IN [frames EXCEPT ![c] =
        [f EXCEPT !.best = bestIteration(rs, f.argv, f.i, f.best),
                  !.i = f.i + 1,
                  !.mixed = f.mixed \/ Overlaps(frames, c)]]

\* The end of bestMatch and of Run, after the loop.
bestDone(rs, ctx, argv, best) ==
  IF best.bestIdx = -1
    THEN [ok |-> FALSE, idx |-> -1, req |-> NoRequest, calls |-> << >>,
          err |-> NoMatchError]
    ELSE LET req == Request(ctx, argv, best.bestParams, best.bestExtra)
             r == Invoke(rs[best.bestIdx + 1].handler, req)
         IN [ok |-> TRUE, idx |-> best.bestIdx, req |-> req, calls |-> r.calls,
             err |-> r.err]

\* go r.Run(ctx, argv): the call enters bestMatch.
RunStart(c, ctx, argv) ==
  /\ inflight[c].pc = "idle"
  /\ inflight' = [inflight EXCEPT ![c] =
       Frame("scan", IF ctx = NilContext THEN Background ELSE ctx, argv, 0, BestInit,
             FALSE, NoResult)]
  /\ UNCHANGED <<routes, builders, cbuilders, last, regs, made, history, help>>

RunStep(c) ==
  /\ inflight[c].pc = "scan"
  /\ inflight[c].i < Len(routes)
  /\ inflight' = bestStep(inflight, c, routes)
  /\ UNCHANGED <<routes, builders, cbuilders, last, regs, made, history, help>>

RunFinish(c) ==
  /\ inflight[c].pc = "scan"
  /\ inflight[c].i >= Len(routes)
  /\ inflight' = [inflight EXCEPT ![c] =
       [@ EXCEPT !.pc = "done",
                 !.mixed = @ \/ Overlaps(inflight, c),
                 !.result = bestDone(routes, inflight[c].ctx, inflight[c].argv,
                                     inflight[c].best)]]
  /\ UNCHANGED <<routes, builders, cbuilders, last, regs, made, history, help>>

\* r.Handle(pattern, desc, h) before any call of Run has started.
HandleBeforeRuns(pattern, desc, h) ==
  /\ \A c \in Calls : inflight[c].pc = "idle"
  /\ Handle(pattern, desc, h)

(***************************************************************************)
(* PrintHelp                                                               *)
(***************************************************************************)
\* rt.String(): literals bare, parameters in angle brackets.
SegmentString(s) ==
  IF s.lit # EmptyString THEN s.lit
  ELSE IF s.param # EmptyString THEN (<< "<" >> \o s.param) \o << ">" >>
  ELSE << "?" >>

RouteString(rt) ==
  Join([k \in 1..Len(rt.segments) |-> SegmentString(rt.segments[k])], << " " >>)

\* Variant: the sort key is the rendered pattern.
sortPatIsPattern(rt) == RouteString(rt)

\* Variant: the sort key leaves the sort hints out.
RECURSIVE sortPartsNoHint(_, _)
sortPartsNoHint(segs, i) ==
  IF i > Len(segs) THEN << >>
  ELSE IF segs[i].lit # EmptyString
    THEN << segs[i].lit >> \o sortPartsNoHint(segs, i + 1)
    ELSE sortPartsNoHint(segs, i + 1)

sortPatNoHint(rt) == Join(sortPartsNoHint(rt.segments, 1), << " " >>)

\* The sortParts of a route: "%d %s" of sort hint and text for each
\* literal segment.
RECURSIVE sortParts(_, _)
sortParts(segs, i) ==
  IF i > Len(segs) THEN << >>
  ELSE IF segs[i].lit # EmptyString
    THEN << (Itoa(segs[i].sort) \o << " " >>) \o segs[i].lit >>
           \o sortParts(segs, i + 1)
    ELSE sortParts(segs, i + 1)

sortPat(rt) == Join(sortParts(rt.segments, 1), << " " >>)

\* The orders sort.Slice may leave the entries in: any in which no entry
\* is followed by one of a smaller sort key (the sort is not stable).
SortSlice(rs) ==
  { order \in [1..Len(rs) -> 1..Len(rs)] :
      /\ \A a, b \in 1..Len(rs) : a # b => order[a] # order[b]
      /\ \A a \in 1..(Len(rs) - 1) :
           ~StringLess(sortPat(rs[order[a + 1]]), sortPat(rs[order[a]])) }

RECURSIVE maxLenLoop(_, _, _)
maxLenLoop(rs, i, maxLen) ==
  IF i > Len(rs) THEN maxLen
  ELSE LET l == Len(RouteString(rs[i]))
       IN maxLenLoop(rs, i + 1, IF l > maxLen THEN l ELSE maxLen)

\* The lines PrintHelp writes when the sort leaves the entries in order.
PrintHelpLines(rs, order) ==
  IF Len(rs) = 0
    THEN << Line("none", 0, EmptyString, "No commands registered.") >>
    ELSE << Line("header", 0, EmptyString, "Available commands:") >> \o
         [k \in 1..Len(rs) |->
            Line("entry", order[k],
                 PadRight(RouteString(rs[order[k]]), maxLenLoop(rs, 1, 0)),
                 rs[order[k]].desc)]

\* r.PrintHelp(w)
PrintHelp ==
  /\ \E order \in SortSlice(routes) :
       help' = Help(Len(routes), PrintHelpLines(routes, order))
  /\ UNCHANGED <<routes, builders, cbuilders, last, regs, made, history, inflight>>

\* r.Handle(pattern, desc, h) on a Router that has no route yet.
HandleFirst(pattern, desc, h) ==
  /\ routes = << >>
  /\ Handle(pattern, desc, h)

\* r.Handle(pattern, desc, WithContextHandler(resolve, h))
HandleTyped(pattern, desc, resolve, h) ==
  /\ Len(routes) < MaxTreeRoutes
  /\ Handle(pattern, desc, WithContextHandler(resolve, h))

(***************************************************************************)
(* Router.Routes, Builder.Route, Builder.With, Builder.Handle              *)
(*                                                                         *)
(* A Builder is never written after its construction, so builders is the   *)
(* set of the Builder values constructed so far.  Route hands its child to *)
(* the callback fn; what fn does with it are further actions.              *)
(***************************************************************************)
BuilderCount == Cardinality(builders) + Cardinality(cbuilders)

\* The trails of the builders constructed with these fields.
TrailsOf(base, resolve, typed) ==
  { m.trail : m \in { n \in made : n.base = base /\ n.resolve = resolve /\ n.typed = typed } }

\* The construction of a child of a builder with the given trails.
Child(base, resolve, typed, trails, step) ==
  { Made(base, resolve, typed, Append(t, step)) : t \in trails }

Routes ==
  /\ BuilderCount < MaxBuilders
  /\ builders' = builders \cup { Builder(<< >>, << >>) }
  /\ made' = made \cup { Made(Builder(<< >>, << >>), NoResolver, FALSE,
                               << Step("Routes", EmptyString, << >>, NoResolver) >>) }
  /\ UNCHANGED <<routes, cbuilders, last, regs, history, help, inflight>>

\* Variant: the tokens of path are put before the prefix of the parent.
BuilderRoutePrepends(b, path) ==
  /\ BuilderCount < MaxBuilders
  /\ LET parts == Fields(path)
         child == Builder(parts \o (<< >> \o b.prefix), << >> \o b.mws)
     IN /\ builders' = builders \cup { child }
        /\ made' = made \cup Child(child, NoResolver, FALSE, TrailsOf(b, NoResolver, FALSE),
                                   Step("Route", path, << >>, NoResolver))
  /\ UNCHANGED <<routes, cbuilders, last, regs, history, help, inflight>>

BuilderRoute(b, path) ==
  /\ BuilderCount < MaxBuilders
  /\ LET parts == Fields(path)
         child == Builder((<< >> \o b.prefix) \o parts, << >> \o b.mws)
     IN /\ builders' = builders \cup { child }
        /\ made' = made \cup Child(child, NoResolver, FALSE, TrailsOf(b, NoResolver, FALSE),
                                   Step("Route", path, << >>, NoResolver))
  /\ UNCHANGED <<routes, cbuilders, last, regs, history, help, inflight>>

\* Variant: With appends to the list of its receiver and returns the
\* receiver.
BuilderWithInPlace(b, mws) ==
  /\ BuilderCount < MaxBuilders
  /\ LET child == Builder(<< >> \o b.prefix, (<< >> \o b.mws) \o mws)
     IN /\ builders' = (builders \ { b }) \cup { child }
        /\ made' = made \cup Child(child, NoResolver, FALSE, TrailsOf(b, NoResolver, FALSE),
                                   Step("With", EmptyString, mws, NoResolver))
  /\ UNCHANGED <<routes, cbuilders, last, regs, history, help, inflight>>

BuilderWith(b, mws) ==
  /\ BuilderCount < MaxBuilders
  /\ LET child == Builder(<< >> \o b.prefix, (<< >> \o b.mws) \o mws)
     IN /\ builders' = builders \cup { child }
        /\ made' = made \cup Child(child, NoResolver, FALSE, TrailsOf(b, NoResolver, FALSE),
                                   Step("With", EmptyString, mws, NoResolver))
  /\ UNCHANGED <<routes, cbuilders, last, regs, history, help, inflight>>

\* Variant: the middleware are applied first to last, so the last one
\* added ends up outermost.
RECURSIVE wrapLoopInnerFirst(_, _, _)
wrapLoopInnerFirst(mws, i, wrapped) ==
  IF i < 0 THEN wrapped
  ELSE wrapLoopInnerFirst(mws, i - 1, ApplyMiddleware(mws[Len(mws) - i], wrapped))

\* i is the Go index (0-based) of the middleware being applied.
RECURSIVE wrapLoop(_, _, _)
wrapLoop(mws, i, wrapped) ==
  IF i < 0 THEN wrapped
  ELSE wrapLoop(mws, i - 1, ApplyMiddleware(mws[i + 1], wrapped))

BuilderHandle(b, path, desc, h) ==
  /\ Len(routes) < MaxTreeRoutes
  /\ LET parts == Fields(path)
         full == (<< >> \o b.prefix) \o parts
         pattern == Join(full, SP)
         wrapped == wrapLoop(b.mws, Len(b.mws) - 1, h)
     IN routes' = RouterHandle(routes, pattern, desc, wrapped)
  /\ regs' = Append(regs, Registration("Builder", b, path, h))
  /\ UNCHANGED <<builders, cbuilders, last, made, history, help, inflight>>

(***************************************************************************)
(* WithContext, WithChildContext, ContextBuilder.Route,                    *)
(* ContextBuilder.With, ContextBuilder.Handle                              *)
(***************************************************************************)
ContextBuilder(base, resolve) == [base |-> base, resolve |-> resolve]

\* Variant: the resolver is called when the layer is built.
WithContextEager(b, resolve) ==
  /\ BuilderCount < MaxBuilders
  /\ Len(history) < MaxRuns
  /\ cbuilders' = cbuilders \cup { ContextBuilder(b, << resolve >>) }
  /\ made' = made \cup Child(b, << resolve >>, TRUE, TrailsOf(b, NoResolver, FALSE),
                             Step("WithContext", EmptyString, << >>, << resolve >>))
  /\ history' = Append(history,
                       Observed("WithContext", -1,
                                << Event("resolve", resolve.id, NoRequest, NoValue) >>))
  /\ UNCHANGED <<routes, builders, last, regs, help, inflight>>

WithContext(b, resolve) ==
  /\ BuilderCount < MaxBuilders
  /\ cbuilders' = cbuilders \cup { ContextBuilder(b, << resolve >>) }
  /\ made' = made \cup Child(b, << resolve >>, TRUE, TrailsOf(b, NoResolver, FALSE),
                             Step("WithContext", EmptyString, << >>, << resolve >>))
  /\ UNCHANGED <<routes, builders, last, regs, history, help, inflight>>

WithChildContext(b, resolve) ==
  /\ BuilderCount < MaxBuilders
  /\ cbuilders' = cbuilders \cup { ContextBuilder(b.base, Append(b.resolve, resolve)) }
  /\ made' = made \cup Child(b.base, Append(b.resolve, resolve), TRUE,
                             TrailsOf(b.base, b.resolve, TRUE),
                             Step("WithChildContext", EmptyString, << >>, << resolve >>))
  /\ UNCHANGED <<routes, builders, last, regs, history, help, inflight>>

WithParentChildContext(b, resolveChild) ==
  WithChildContext(b, PairResolver(resolveChild))

ContextRoute(b, path) ==
  /\ BuilderCount < MaxBuilders
  /\ LET childBase == Builder((<< >> \o b.base.prefix) \o Fields(path),
                              << >> \o b.base.mws)
     IN /\ cbuilders' = cbuilders \cup { ContextBuilder(childBase, b.resolve) }
        /\ made' = made \cup Child(childBase, b.resolve, TRUE,
                                   TrailsOf(b.base, b.resolve, TRUE), Step("Route", path, << >>, NoResolver))
  /\ UNCHANGED <<routes, builders, last, regs, history, help, inflight>>

ContextWith(b, mws) ==
  /\ BuilderCount < MaxBuilders
  /\ LET childBase == Builder(<< >> \o b.base.prefix,
                              (<< >> \o b.base.mws) \o mws)
     IN /\ cbuilders' = cbuilders \cup { ContextBuilder(childBase, b.resolve) }
        /\ made' = made \cup Child(childBase, b.resolve, TRUE,
                                   TrailsOf(b.base, b.resolve, TRUE), Step("With", EmptyString, mws, NoResolver))
  /\ UNCHANGED <<routes, builders, last, regs, history, help, inflight>>

\* i is the Go index (0-based) of the middleware being applied.
RECURSIVE contextWrapLoop(_, _, _)
contextWrapLoop(mws, i, wrapped) ==
  IF i < 0 THEN wrapped
  ELSE contextWrapLoop(mws, i - 1, ApplyMiddleware(mws[i + 1], wrapped))

ContextHandle(b, path, desc, h) ==
  /\ Len(routes) < MaxTreeRoutes
  /\ LET parts == Fields(path)
         full == (<< >> \o b.base.prefix) \o parts
         pattern == Join(full, SP)
         baseHandler == BaseHandler(b.resolve, h)
         wrapped == contextWrapLoop(b.base.mws, Len(b.base.mws) - 1, baseHandler)
     IN /\ routes' = RouterHandle(routes, pattern, desc, wrapped)
        /\ regs' = Append(regs, Registration("ContextBuilder", b.base, path, baseHandler))
  /\ UNCHANGED <<builders, cbuilders, last, made, history, help, inflight>>

(***************************************************************************)
(* Specifications.                                                         *)
(*   Spec         routes registered directly with Router.Handle            *)
(*   WideSpec     the same, with routes around the 32-segment limit        *)
(*   BuilderSpec  routes registered through the Builder tree               *)
(*   ParseSpec    one pattern, of any tokens, registered on a new Router   *)
(*   HintSpec     routes whose patterns have sort hints                    *)
(*   HelpSpec     routes and PrintHelp                                     *)
(*   ZeroSpec     routes of patterns without segments, and Run             *)
(*   FrameSpec    registration of every kind, Run and PrintHelp            *)
(*   OnionSpec    typed routes behind middleware, and Run                  *)
(*   RankSpec     routes of equal kinds and of 32 segments, and Run        *)
(*   KindSpec     registrations with the tokens "<>", "<" and ">"          *)
(*   ConcurrentSpec  interleaved calls of Run on a table no longer changed *)
(*   TreeSpec     the Builder tree and its routes, without dispatch        *)
(*   TypedSpec    routes with typed contexts, dispatched more than once    *)
(*   ContextSpec  routes behind middleware that replace the context        *)
(***************************************************************************)
DoHandle == \E p \in Patterns, d \in Descs, h \in Handlers : Handle(p, d, h)

DoRun == \E c \in Contexts, argv \in Argvs : Run(c, argv)

Next == DoHandle \/ DoRun

Spec == Init /\ [][Next]_vars

DoWideHandle == \E p \in WidePatterns, d \in Descs, h \in Handlers : Handle(p, d, h)

DoWideRun == \E c \in OneContext, argv \in WideArgvs : Run(c, argv)

WideNext == DoWideHandle \/ DoWideRun

WideSpec == Init /\ [][WideNext]_vars

DoBuilderRoute == \E b \in builders, p \in Paths : BuilderRoute(b, p)

DoBuilderWith == \E b \in builders, ms \in MiddlewareLists : BuilderWith(b, ms)

DoBuilderHandle ==
  \E b \in builders, p \in Paths, d \in Descs, h \in TreeHandlers :
    BuilderHandle(b, p, d, h)

DoWithContext == \E b \in builders, r \in Resolvers : WithContext(b, r)

DoWithChildContext == \E b \in cbuilders, r \in Resolvers : WithChildContext(b, r)

DoContextRoute == \E b \in cbuilders, p \in Paths : ContextRoute(b, p)

DoContextWith == \E b \in cbuilders, ms \in MiddlewareLists : ContextWith(b, ms)

DoContextHandle ==
  \E b \in cbuilders, p \in Paths, d \in Descs, h \in ContextHandlers :
    ContextHandle(b, p, d, h)

DoTreeRun == \E c \in OneContext, argv \in TreeArgvs : Run(c, argv)

BuilderNext ==
  \/ Routes \/ DoBuilderRoute \/ DoBuilderWith \/ DoBuilderHandle
  \/ DoWithContext \/ DoWithChildContext \/ DoContextRoute \/ DoContextWith \/ DoContextHandle
  \/ DoTreeRun

BuilderSpec == Init /\ [][BuilderNext]_vars

DoParseHandle ==
  \E p \in ParsePatterns, d \in Descs, h \in TreeHandlers : HandleFirst(p, d, h)

ParseNext == DoParseHandle

ParseSpec == Init /\ [][ParseNext]_vars

DoHintHandle ==
  \E p \in HintPatterns, d \in Descs, h \in TreeHandlers : Handle(p, d, h)

DoHintRun == \E c \in OneContext, argv \in Argvs : Run(c, argv)

HintNext == DoHintHandle \/ DoHintRun

HintSpec == Init /\ [][HintNext]_vars

DoConcurrentHandle ==
  \E p \in ConcurrentPatterns, d \in Descs, h \in TreeHandlers : HandleBeforeRuns(p, d, h)

DoRunStart == \E c \in Calls, ctx \in OneContext, argv \in ConcurrentArgvs : RunStart(c, ctx, argv)

DoRunStep == \E c \in Calls : RunStep(c)

DoRunFinish == \E c \in Calls : RunFinish(c)

ConcurrentNext == DoConcurrentHandle \/ DoRunStart \/ DoRunStep \/ DoRunFinish

ConcurrentSpec == Init /\ [][ConcurrentNext]_vars

DoKindRoute == \E b \in builders, p \in KindRoutePaths : BuilderRoute(b, p)

DoKindBuilderHandle ==
  \E b \in builders, p \in KindHandlePaths, d \in Descs, h \in TreeHandlers :
    BuilderHandle(b, p, d, h)

DoKindContextHandle ==
  \E b \in cbuilders, p \in KindHandlePaths, d \in Descs, h \in ContextHandlers :
    ContextHandle(b, p, d, h)

DoKindHandle ==
  \E p \in KindPatterns, d \in Descs, h \in TreeHandlers : Handle(p, d, h)

KindNext ==
  \/ Routes \/ DoKindRoute \/ DoKindBuilderHandle
  \/ DoWithContext \/ DoKindContextHandle \/ DoKindHandle

KindSpec == Init /\ [][KindNext]_vars

DoRankHandle == \E p \in RankPatterns, d \in Descs, h \in Handlers : Handle(p, d, h)

DoRankRun == \E c \in OneContext, argv \in RankArgvs : Run(c, argv)

RankNext == DoRankHandle \/ DoRankRun

RankSpec == Init /\ [][RankNext]_vars

DoFrameBuilderHandle ==
  \E b \in builders, p \in Paths, d \in Descs, h \in TreeHandlers :
    BuilderHandle(b, p, d, h)

DoFrameContextHandle ==
  \E b \in cbuilders, p \in Paths, d \in Descs, h \in ContextHandlers :
    ContextHandle(b, p, d, h)

DoFrameHandle == \E p \in Paths, d \in Descs, h \in TreeHandlers : Handle(p, d, h)

DoFrameRun == \E c \in OneContext, argv \in TypedArgvs : Run(c, argv)

FrameNext ==
  \/ Routes \/ DoWithContext \/ DoFrameBuilderHandle \/ DoFrameContextHandle
  \/ DoFrameHandle \/ DoFrameRun \/ PrintHelp

FrameSpec == Init /\ [][FrameNext]_vars

DoZeroBuilderHandle ==
  \E b \in builders, p \in ZeroPaths, d \in Descs, h \in TreeHandlers :
    BuilderHandle(b, p, d, h)

DoZeroHandle == \E p \in ZeroPatterns, d \in Descs, h \in Handlers : Handle(p, d, h)

DoZeroRun == \E c \in OneContext, argv \in TreeArgvs : Run(c, argv)

ZeroNext == Routes \/ DoZeroBuilderHandle \/ DoZeroHandle \/ DoZeroRun

ZeroSpec == Init /\ [][ZeroNext]_vars

DoHelpHandle ==
  \E p \in HelpPatterns, d \in Descs, h \in TreeHandlers : Handle(p, d, h)

HelpNext == DoHelpHandle \/ PrintHelp

HelpSpec == Init /\ [][HelpNext]_vars

DoTreeBuilderHandle ==
  \E b \in builders, p \in HandlePaths, d \in Descs, h \in TreeHandlers :
    BuilderHandle(b, p, d, h)

DoTreeContextHandle ==
  \E b \in cbuilders, p \in HandlePaths, d \in Descs, h \in ContextHandlers :
    ContextHandle(b, p, d, h)

TreeNext ==
  \/ Routes \/ DoBuilderRoute \/ DoBuilderWith \/ DoTreeBuilderHandle
  \/ DoWithContext \/ DoContextRoute \/ DoContextWith \/ DoTreeContextHandle

TreeSpec == Init /\ [][TreeNext]_vars

DoTypedWithContext == \E b \in builders, r \in ChainResolvers : WithContext(b, r)

DoTypedWithChildContext ==
  \E b \in cbuilders, r \in ChainResolvers : WithChildContext(b, r)

DoWithParentChildContext ==
  \E b \in cbuilders, r \in ChainResolvers : WithParentChildContext(b, r)

DoTypedContextHandle ==
  \E b \in cbuilders, p \in TypedPaths, d \in Descs, h \in ContextHandlers :
    ContextHandle(b, p, d, h)

DoHandleTyped ==
  \E p \in TypedPaths, d \in Descs, r \in ChainResolvers, h \in ContextHandlers :
    HandleTyped(p, d, r, h)

DoTypedRun == \E c \in OneContext, argv \in TypedArgvs : Run(c, argv)

DoRunAgain == \E c \in OneContext, argv \in TypedArgvs : RunAgain(c, argv)

TypedNext ==
  \/ Routes \/ DoTypedWithContext \/ DoTypedWithChildContext
  \/ DoWithParentChildContext \/ DoTypedContextHandle \/ DoHandleTyped
  \/ DoTypedRun \/ DoRunAgain

TypedSpec == Init /\ [][TypedNext]_vars

DoOnionWith == \E b \in cbuilders, ms \in OnionMiddlewareLists : ContextWith(b, ms)

OnionNext ==
  \/ Routes \/ DoTypedWithContext \/ DoTypedWithChildContext \/ DoOnionWith
  \/ DoTypedContextHandle \/ DoTypedRun

OnionSpec == Init /\ [][OnionNext]_vars

DoContextSpecWith ==
  \E b \in builders, ms \in ContextMiddlewareLists : BuilderWith(b, ms)

DoContextSpecBuilderHandle ==
  \E b \in builders, p \in TypedPaths, d \in Descs, h \in TreeHandlers :
    BuilderHandle(b, p, d, h)

DoContextSpecHandle ==
  \E p \in ContextPatterns, d \in Descs, h \in Handlers : Handle(p, d, h)

DoContextSpecRun == \E c \in Contexts, argv \in TypedArgvs : Run(c, argv)

ContextNext ==
  \/ Routes \/ DoContextSpecWith \/ DoContextSpecBuilderHandle
  \/ DoWithContext \/ DoTypedContextHandle \/ DoContextSpecHandle
  \/ DoContextSpecRun

ContextSpec == Init /\ [][ContextNext]_vars

(***************************************************************************)
(* Vocabulary of the properties: the dispatch recorded in last.            *)
(***************************************************************************)
Table == last.routes

RouteIdx == 1..Len(last.routes)

\* The position in the table (1-based) of the route bestMatch returned.
Selected == last.idx + 1

RankOf(i) == last.ranks[i]

\* The route is a match for the dispatch: its rank is not zero.
Matches(i) == RankOf(i) # ZeroWord

SegCount(i) == Len(last.routes[i].segments)

IsLiteral(s) == s.lit # EmptyString

IsParameter(s) == s.lit = EmptyString /\ s.param # EmptyString

\* Routes i and j have the same kind at each of the first n positions.
SameKinds(i, j, n) ==
  \A p \in 1..n :
    /\ IsLiteral(last.routes[i].segments[p]) <=> IsLiteral(last.routes[j].segments[p])
    /\ IsParameter(last.routes[i].segments[p]) <=> IsParameter(last.routes[j].segments[p])

\* The user function at the core of a handler.
UserOf(h) == h[Len(h)]

\* The trace without the requests: which function ran, in order.
Steps(calls) == [k \in 1..Len(calls) |-> << calls[k].ev, calls[k].id >>]

\* The steps of the middleware and of the handler they wrap.
RECURSIVE ChainSteps(_)
ChainSteps(calls) ==
  IF calls = << >> THEN << >>
  ELSE IF Head(calls).ev \in {"before", "handler", "after"}
    THEN << << Head(calls).ev, Head(calls).id >> >> \o ChainSteps(Tail(calls))
    ELSE ChainSteps(Tail(calls))

HandlerCalls == { k \in 1..Len(last.calls) : last.calls[k].ev = "handler" }

(***************************************************************************)
(* C1: when at least one registered route matches argv, the route selected *)
(* matches and no matching route has a strictly higher rank.               *)
(***************************************************************************)
C1_SelectedRankIsMaximal ==
  (last.called /\ \E i \in RouteIdx : Matches(i)) =>
    /\ last.ok
    /\ Selected \in RouteIdx
    /\ Matches(Selected)
    /\ \A j \in RouteIdx : Matches(j) => ~WordGreater(RankOf(j), RankOf(Selected))

\* A later-registered route of higher rank was preferred to an earlier match.
C1_Witness ==
  /\ last.ok
  /\ \E j \in RouteIdx : /\ j < Selected
                         /\ Matches(j)
                         /\ WordGreater(RankOf(Selected), RankOf(j))

(***************************************************************************)
(* C2: among the matching routes of maximal rank the earliest registered   *)
(* one is selected, and the only user function run is its own; the route   *)
(* registered first wins when a pattern is registered twice.               *)
(***************************************************************************)
TopRanked ==
  { i \in RouteIdx :
      /\ Matches(i)
      /\ \A j \in RouteIdx : Matches(j) => ~WordGreater(RankOf(j), RankOf(i)) }

C2_EarliestOfTiedWins ==
  last.ok =>
    /\ Selected \in TopRanked
    /\ \A j \in TopRanked : Selected <= j
    /\ \A k \in HandlerCalls : last.calls[k].id = UserOf(Table[Selected].handler).id

\* The same pattern registered twice with different handlers, both of
\* maximal rank.
C2_Witness ==
  /\ last.ok
  /\ \E j \in TopRanked : /\ j > Selected
                          /\ Table[j].segments = Table[Selected].segments
                          /\ Table[j].handler # Table[Selected].handler

(***************************************************************************)
(* C3: of two matching routes with the same kinds before position k, a     *)
(* literal at k in one and a parameter at k in the other, the literal      *)
(* route has the strictly higher rank and the parameter route is not       *)
(* selected, whatever their lengths and whatever follows k.                *)
(***************************************************************************)
\* k is a position (1-based) of both routes.
LiteralBeforeParameter(i, j, k) ==
  /\ Matches(i) /\ Matches(j)
  /\ k <= SegCount(i) /\ k <= SegCount(j)
  /\ SameKinds(i, j, k - 1)
  /\ IsLiteral(Table[i].segments[k])
  /\ IsParameter(Table[j].segments[k])

C3_LiteralOutranksParameter ==
  last.called =>
    \A i, j \in RouteIdx : \A k \in 1..SegCount(i) :
      LiteralBeforeParameter(i, j, k) =>
        /\ WordGreater(RankOf(i), RankOf(j))
        /\ Selected # j

\* The literal route is the shorter one and was registered after the
\* parameter route, and it is selected.
C3_Witness ==
  /\ last.ok
  /\ \E j \in RouteIdx : \E k \in 2..SegCount(Selected) :
       /\ LiteralBeforeParameter(Selected, j, k)
       /\ SegCount(Selected) < SegCount(j)
       /\ j < Selected

(***************************************************************************)
(* C4: of two matching routes where the kinds of the shorter are a strict  *)
(* prefix of the kinds of the longer, the longer has the strictly higher   *)
(* rank and the shorter is not selected, in either registration order.     *)
(***************************************************************************)
StrictPrefix(i, j) ==
  /\ Matches(i) /\ Matches(j)
  /\ SegCount(i) < SegCount(j)
  /\ SameKinds(i, j, SegCount(i))

C4_LongerExtensionWins ==
  last.called =>
    \A i, j \in RouteIdx :
      StrictPrefix(i, j) =>
        /\ WordGreater(RankOf(j), RankOf(i))
        /\ Selected # i

\* The shorter route was registered first and the longer one is selected.
C4_Witness ==
  /\ last.ok
  /\ \E i \in RouteIdx : StrictPrefix(i, Selected) /\ i < Selected

(***************************************************************************)
(* C5: a route of at most 32 segments is treated as matching exactly when  *)
(* argv is at least as long as the route and equals it at each literal     *)
(* position; a mismatch of one route does not stop the scan.               *)
(***************************************************************************)
LengthAndLiteralsAgree(i) ==
  /\ Len(last.argv) >= SegCount(i)
  /\ \A p \in 1..SegCount(i) :
       IsLiteral(Table[i].segments[p]) => last.argv[p] = Table[i].segments[p].lit

\* The claim as stated.
C5_AsStated ==
  last.called =>
    \A i \in RouteIdx :
      SegCount(i) <= MaxSegments => (Matches(i) <=> LengthAndLiteralsAgree(i))

\* The route has a segment, and each segment is a literal or a parameter
\* with a name.
HasKinds(i) ==
  /\ SegCount(i) >= 1
  /\ \A p \in 1..SegCount(i) :
       IsLiteral(Table[i].segments[p]) \/ IsParameter(Table[i].segments[p])

\* As amended: for routes of 1 to 32 segments, none of them the token "<>".
C5_MatchIffLengthAndLiterals ==
  last.called =>
    /\ \A i \in RouteIdx :
         (HasKinds(i) /\ SegCount(i) <= MaxSegments) =>
           (Matches(i) <=> LengthAndLiteralsAgree(i))
    /\ last.ok <=> \E i \in RouteIdx : Matches(i)

\* A route of 32 segments is selected after an earlier route, long enough
\* for argv, failed on a literal.
C5_Witness ==
  /\ last.ok
  /\ SegCount(Selected) = MaxSegments
  /\ \E i \in RouteIdx : /\ i < Selected
                         /\ HasKinds(i)
                         /\ SegCount(i) <= Len(last.argv)
                         /\ ~Matches(i)

(***************************************************************************)
(* C6: the request handed to the handler carries the Params of the         *)
(* selected route: a non-nil map whose keys are the parameter names of     *)
(* that route, each bound to the argv token at the last position of that   *)
(* name; empty for a route of literals only.                               *)
(***************************************************************************)
ParamPositions(segs) == { p \in 1..Len(segs) : IsParameter(segs[p]) }

LastPosition(segs, name) ==
  LET ps == { p \in ParamPositions(segs) : segs[p].param = name }
  IN CHOOSE p \in ps : \A q \in ps : q <= p

C6_ParamsOfSelectedRoute ==
  last.ok =>
    \A k \in HandlerCalls :
      LET segs == Table[Selected].segments
          params == last.calls[k].req.Params
          names == { segs[p].param : p \in ParamPositions(segs) }
      IN /\ ~params.isNil
         /\ DOMAIN params.kv = names
         /\ \A n \in names : params.kv[n] = last.argv[LastPosition(segs, n)]

\* The selected route names a parameter twice, at positions holding
\* different tokens.
C6_Witness ==
  /\ last.ok
  /\ HandlerCalls # {}
  /\ \E p, q \in ParamPositions(Table[Selected].segments) :
       /\ p < q
       /\ Table[Selected].segments[p].param = Table[Selected].segments[q].param
       /\ last.argv[p] # last.argv[q]

(***************************************************************************)
(* C7: the request handed to the handler has Args = argv and               *)
(* Extra = argv[n:], n the segment count of the selected route.            *)
(***************************************************************************)
C7_ArgsAndExtra ==
  last.ok =>
    \A k \in HandlerCalls :
      LET n == SegCount(Selected)
          req == last.calls[k].req
      IN /\ req.Args = last.argv
         /\ Len(req.Extra) = Len(last.argv) - n
         /\ \A e \in 1..Len(req.Extra) : req.Extra[e] = last.argv[n + e]

\* Tokens are left over, and a matching route that was not selected has
\* another segment count.
C7_Witness ==
  /\ last.ok
  /\ HandlerCalls # {}
  /\ last.req.Extra # << >>
  /\ \E j \in RouteIdx : /\ j > Selected
                         /\ Matches(j)
                         /\ SegCount(j) # SegCount(Selected)

(***************************************************************************)
(* C8: when no registered route matches, Run returns the error             *)
(* "no matching command" and calls nothing.                                *)
(***************************************************************************)
C8_NoMatchError ==
  (last.called /\ \A i \in RouteIdx : ~Matches(i)) =>
    /\ last.err = NoMatchError
    /\ last.err # Nil
    /\ last.calls = << >>

\* Routes are registered and none of them matches.
C8_Witness ==
  /\ last.called
  /\ Len(Table) = MaxRoutes
  /\ \A i \in RouteIdx : ~Matches(i)
  /\ last.argv # << >>

(***************************************************************************)
(* C9: a Run calls at most one route handler; when a route matches it      *)
(* calls exactly the selected route's handler, once, with the Request      *)
(* bestMatch built, and returns what that handler returns.                 *)
(***************************************************************************)
C9_OneHandlerResultUnchanged ==
  last.called =>
    /\ Cardinality(HandlerCalls) <= 1
    /\ (\E i \in RouteIdx : Matches(i)) =>
         /\ Cardinality(HandlerCalls) = 1
         /\ \A k \in HandlerCalls :
              /\ last.calls[k].id = UserOf(Table[Selected].handler).id
              /\ last.calls[k].req = last.req
         /\ last.err = Invoke(Table[Selected].handler, last.req).err

\* The selected handler returned an error and another matching route has a
\* handler of its own.
C9_Witness ==
  /\ last.ok
  /\ last.err # Nil
  /\ \E j \in RouteIdx : /\ j # Selected
                         /\ Matches(j)
                         /\ Table[j].handler # Table[Selected].handler

(***************************************************************************)
(* C10: a dispatch to a route registered on a builder whose middleware     *)
(* list is m1..mn runs before-m1 .. before-mn, the handler, after-mn ..    *)
(* after-m1.                                                               *)
(***************************************************************************)
Onion(mws, h) ==
  [k \in 1..Len(mws) |-> << "before", mws[k].id >>]
    \o << << "handler", UserOf(h).id >> >>
    \o [k \in 1..Len(mws) |-> << "after", mws[Len(mws) + 1 - k].id >>]

C10_MiddlewareOrder ==
  (last.ok /\ regs[Selected].via \in {"Builder", "ContextBuilder"}) =>
    ChainSteps(last.calls) = Onion(regs[Selected].builder.mws, regs[Selected].h)

\* The route was registered on a builder that got its three middleware
\* from two nested With calls, and the first two differ.
C10_Witness ==
  /\ last.ok
  /\ regs[Selected].via = "Builder"
  /\ Len(regs[Selected].builder.mws) = 3
  /\ regs[Selected].builder.mws[1] # regs[Selected].builder.mws[2]

\* The same on a typed builder that holds two different middleware.
C10_TypedCase ==
  /\ last.ok
  /\ regs[Selected].via = "ContextBuilder"
  /\ Len(regs[Selected].builder.mws) = 2
  /\ regs[Selected].builder.mws[1] # regs[Selected].builder.mws[2]

(***************************************************************************)
(* Vocabulary of the properties: the builder tree.                         *)
(***************************************************************************)
\* What a trail accumulates: the tokens of its Route calls, the middleware
\* of its With calls, the resolvers of its typed layers, each in order.
RECURSIVE TrailPrefix(_)
TrailPrefix(trail) ==
  IF trail = << >> THEN << >>
  ELSE IF Head(trail).op = "Route"
    THEN Fields(Head(trail).path) \o TrailPrefix(Tail(trail))
    ELSE TrailPrefix(Tail(trail))

RECURSIVE TrailMws(_)
TrailMws(trail) ==
  IF trail = << >> THEN << >>
  ELSE Head(trail).mws \o TrailMws(Tail(trail))

RECURSIVE TrailResolve(_)
TrailResolve(trail) ==
  IF trail = << >> THEN << >>
  ELSE Head(trail).resolve \o TrailResolve(Tail(trail))

RegIdx == 1..Len(regs)

OnBuilder(i) == regs[i].via \in {"Builder", "ContextBuilder"}

\* The trails of the builder the i-th route was registered on.
RegTrails(i) ==
  IF regs[i].via = "ContextBuilder"
    THEN TrailsOf(regs[i].builder, regs[i].h[1].resolve, TRUE)
    ELSE TrailsOf(regs[i].builder, NoResolver, FALSE)

(***************************************************************************)
(* C11: every builder constructed is still what it was constructed as,     *)
(* which is what its own trail accumulates; a route registered on a        *)
(* builder has the tokens of that trail before those of its path and is    *)
(* wrapped in the middleware of that trail, and in no other.               *)
(***************************************************************************)
C11_BranchIsolation ==
  /\ builders = { m.base : m \in { n \in made : ~n.typed } }
  /\ cbuilders = { ContextBuilder(m.base, m.resolve) : m \in { n \in made : n.typed } }
  /\ \A m \in made :
       /\ m.base.prefix = TrailPrefix(m.trail)
       /\ m.base.mws = TrailMws(m.trail)
       /\ m.resolve = TrailResolve(m.trail)
  /\ Len(routes) = Len(regs)
  /\ \A i \in RegIdx :
       OnBuilder(i) =>
         /\ RegTrails(i) # {}
         /\ \A t \in RegTrails(i) :
              /\ routes[i].segments =
                   parseSegments(TrailPrefix(t) \o Fields(regs[i].path))
              /\ routes[i].handler = TrailMws(t) \o regs[i].h

\* Two With calls on the same parent made two branches of different
\* middleware, and a route is registered on one of them.
C11_Witness ==
  \E i \in RegIdx :
    /\ OnBuilder(i)
    /\ \E t \in RegTrails(i) : \E m \in made :
         /\ Len(t) >= 2
         /\ Len(m.trail) = Len(t)
         /\ SubSeq(m.trail, 1, Len(t) - 1) = SubSeq(t, 1, Len(t) - 1)
         /\ t[Len(t)].op = "With"
         /\ m.trail[Len(t)].op = "With"
         /\ m.trail[Len(t)].mws # t[Len(t)].mws

(***************************************************************************)
(* C12: Handle on a builder reached through Route(p1) .. Route(pk)         *)
(* registers one route, whose segments are the parse of the tokens of      *)
(* p1, .., pk and of the path, in that order; With adds no segment.        *)
(***************************************************************************)
RECURSIVE RoutePaths(_)
RoutePaths(trail) ==
  IF trail = << >> THEN << >>
  ELSE IF Head(trail).op = "Route"
    THEN << Head(trail).path >> \o RoutePaths(Tail(trail))
    ELSE RoutePaths(Tail(trail))

RECURSIVE TokensOf(_)
TokensOf(paths) ==
  IF paths = << >> THEN << >>
  ELSE Fields(Head(paths)) \o TokensOf(Tail(paths))

C12_PrefixThenPath ==
  /\ Len(routes) = Len(regs)
  /\ \A i \in RegIdx :
       OnBuilder(i) =>
         \A t \in RegTrails(i) :
           routes[i].segments =
             parseSegments(TokensOf(Append(RoutePaths(t), regs[i].path)))

\* The builder was reached through two Route calls of different paths,
\* and the path has two segments.
C12_Witness ==
  \E i \in RegIdx :
    /\ OnBuilder(i)
    /\ \E t \in RegTrails(i) :
         /\ Len(RoutePaths(t)) = 2
         /\ RoutePaths(t)[1] # RoutePaths(t)[2]
    /\ Len(routes[i].segments) = 4

(***************************************************************************)
(* Vocabulary of the properties: the typed route of a dispatch.            *)
(***************************************************************************)
IsResolve(e) == e.ev = "resolve"

IsBody(e) == e.ev = "body"

IsResolveOrBody(e) == e.ev \in {"resolve", "body"}

\* The function the middleware of route i (1-based) wrap.
Core(i) == UserOf(routes[i].handler)

IsTyped(i) == Core(i).kind = "typed"

\* The first resolver of the chain that fails, Len(chain) + 1 if none does.
FirstFailure(chain) ==
  LET failing == { i \in 1..Len(chain) : chain[i].err # Nil }
  IN IF failing = {} THEN Len(chain) + 1
     ELSE CHOOSE i \in failing : \A j \in failing : i <= j

\* The resolvers a dispatch has to call: up to the first that fails.
Due(chain) ==
  IF FirstFailure(chain) > Len(chain) THEN Len(chain) ELSE FirstFailure(chain)

\* The value the i-th resolver of the chain returns when those before it
\* succeed.
RECURSIVE Resolved(_, _)
Resolved(chain, i) ==
  IF i = 1 THEN Value(chain[1].id, << >>)
  ELSE LET parent == Resolved(chain, i - 1)
           child == Value(chain[i].id, << parent >>)
       IN IF chain[i].pair THEN ParentChild(parent, child) ELSE child

\* The error of the resolver of the chain that has this name.
ErrorOf(chain, id) ==
  LET i == CHOOSE j \in 1..Len(chain) : chain[j].id = id
  IN chain[i].err

(***************************************************************************)
(* C13: in a dispatch to a typed route in which a resolver returns an      *)
(* error, the body of the typed handler does not run and Run returns that  *)
(* error.                                                                  *)
(***************************************************************************)
C13_ResolverErrorReturned ==
  (last.ok /\ IsTyped(Selected)) =>
    LET chain == Core(Selected).resolve
        resolves == SelectSeq(last.calls, IsResolve)
    IN \A k \in 1..Len(resolves) :
         ErrorOf(chain, resolves[k].id) # Nil =>
           /\ SelectSeq(last.calls, IsBody) = << >>
           /\ last.err = ErrorOf(chain, resolves[k].id)
           /\ last.err # Core(Selected).ret

\* The route was registered with WithContextHandler and its resolver
\* failed.
C13_Witness ==
  /\ last.ok
  /\ IsTyped(Selected)
  /\ regs[Selected].via = "Router"
  /\ \E k \in 1..Len(last.calls) :
       /\ last.calls[k].ev = "resolve"
       /\ ErrorOf(Core(Selected).resolve, last.calls[k].id) # Nil

\* The same on a route registered with ContextBuilder.Handle.
C13_BuilderCase ==
  /\ last.ok
  /\ IsTyped(Selected)
  /\ regs[Selected].via = "ContextBuilder"
  /\ \E k \in 1..Len(last.calls) :
       /\ last.calls[k].ev = "resolve"
       /\ ErrorOf(Core(Selected).resolve, last.calls[k].id) # Nil

(***************************************************************************)
(* C14: a dispatch to a route of a chain r1 .. rn of WithContext and       *)
(* WithChildContext layers calls r1, r2, .. in this order up to the first  *)
(* that fails, each on the value of the one before; when none fails the    *)
(* body runs after them on the value of rn, and when ri fails the body     *)
(* does not run and the result is the error of ri.                         *)
(***************************************************************************)
PlainChain(chain) == \A i \in 1..Len(chain) : ~chain[i].pair

C14_ChainInOrder ==
  (last.ok /\ IsTyped(Selected) /\ PlainChain(Core(Selected).resolve)) =>
    LET chain == Core(Selected).resolve
        n == Len(chain)
        f == FirstFailure(chain)
        steps == SelectSeq(last.calls, IsResolveOrBody)
    IN /\ Len(steps) >= Due(chain)
       /\ \A i \in 1..Due(chain) :
            /\ steps[i].ev = "resolve"
            /\ steps[i].id = chain[i].id
            /\ steps[i].val = IF i = 1 THEN NoValue ELSE << Resolved(chain, i - 1) >>
       /\ IF f > n
            THEN /\ Len(steps) = n + 1
                 /\ steps[n + 1].ev = "body"
                 /\ steps[n + 1].val = << Resolved(chain, n) >>
                 /\ last.err = Core(Selected).ret
            ELSE /\ Len(steps) = f
                 /\ last.err = chain[f].err

\* Two layers of different resolvers succeeded and the body ran.
C14_Witness ==
  /\ last.ok
  /\ IsTyped(Selected)
  /\ PlainChain(Core(Selected).resolve)
  /\ Len(Core(Selected).resolve) = 2
  /\ Core(Selected).resolve[1].id # Core(Selected).resolve[2].id
  /\ SelectSeq(last.calls, IsBody) # << >>

\* The parent failed, over a child that would have succeeded.
C14_FailureCase ==
  /\ last.ok
  /\ IsTyped(Selected)
  /\ PlainChain(Core(Selected).resolve)
  /\ Len(Core(Selected).resolve) = 2
  /\ FirstFailure(Core(Selected).resolve) = 1
  /\ Core(Selected).resolve[2].err = Nil

(***************************************************************************)
(* C15: user code is called by Run only, never while the tree is built,    *)
(* and each dispatch that selects a typed route calls each resolver of     *)
(* its chain once, up to the first that fails, whatever the dispatches     *)
(* before it did.                                                          *)
(***************************************************************************)
Dispatches == 1..Len(history)

C15_LazyAndNotCached ==
  \A d \in Dispatches :
    /\ history[d].op = "Run"
    /\ (history[d].idx >= 0 /\ IsTyped(history[d].idx + 1)) =>
         LET chain == Core(history[d].idx + 1).resolve
             resolves == SelectSeq(history[d].calls, IsResolve)
         IN /\ Len(resolves) = Due(chain)
            /\ \A i \in 1..Due(chain) : resolves[i].id = chain[i].id
    /\ (history[d].idx < 0 \/ ~IsTyped(history[d].idx + 1)) =>
         SelectSeq(history[d].calls, IsResolve) = << >>

\* The same typed route of two layers was selected by two dispatches.
C15_Witness ==
  \E d, e \in Dispatches :
    /\ d < e
    /\ history[d].idx >= 0
    /\ history[e].idx = history[d].idx
    /\ IsTyped(history[d].idx + 1)
    /\ Len(Core(history[d].idx + 1).resolve) = 2

(***************************************************************************)
(* C16: on a route of a WithParentChildContext layer the body gets a pair  *)
(* whose Parent() is the value the parent resolver returned, the one the   *)
(* child resolver was called on, and whose Child() is what the child       *)
(* resolver returned from it; each resolver is called once; when the       *)
(* child resolver fails the body does not run and its error is returned.   *)
(***************************************************************************)
PairChain(chain) == Len(chain) >= 2 /\ chain[Len(chain)].pair

C16_ParentChildPair ==
  (last.ok /\ IsTyped(Selected) /\ PairChain(Core(Selected).resolve)) =>
    LET chain == Core(Selected).resolve
        n == Len(chain)
        resolves == SelectSeq(last.calls, IsResolve)
        bodies == SelectSeq(last.calls, IsBody)
    IN /\ Len(resolves) = Due(chain)
       /\ \A i \in 1..Due(chain) : resolves[i].id = chain[i].id
       /\ FirstFailure(chain) > n =>
            /\ Len(bodies) = 1
            /\ Parent(bodies[1].val[1]) = Resolved(chain, n - 1)
            /\ << Parent(bodies[1].val[1]) >> = resolves[n].val
            /\ ChildOf(bodies[1].val[1]) = Value(chain[n].id, resolves[n].val)
       /\ FirstFailure(chain) = n =>
            /\ bodies = << >>
            /\ last.err = chain[n].err

\* Parent and child resolver differ, both succeeded and the body ran.
C16_Witness ==
  /\ last.ok
  /\ IsTyped(Selected)
  /\ PairChain(Core(Selected).resolve)
  /\ Len(Core(Selected).resolve) = 2
  /\ Core(Selected).resolve[1].id # Core(Selected).resolve[2].id
  /\ SelectSeq(last.calls, IsBody) # << >>

\* The child resolver failed.
C16_FailureCase ==
  /\ last.ok
  /\ IsTyped(Selected)
  /\ PairChain(Core(Selected).resolve)
  /\ FirstFailure(Core(Selected).resolve) = Len(Core(Selected).resolve)

(***************************************************************************)
(* Vocabulary of the properties: the contexts seen in a dispatch.          *)
(***************************************************************************)
\* The context Run was called with, or the default one.
Supplied == IF last.ctx = NilContext THEN Background ELSE last.ctx

\* The middleware around the selected route, outermost first.
Around == SubSeq(Table[Selected].handler, 1, Len(Table[Selected].handler) - 1)

\* The number of middleware around the k-th call of the dispatch: the
\* first Len(Around) calls are the middleware going in, the last
\* Len(Around) the middleware coming out, those between are inside all.
Depth(k) ==
  LET n == Len(Around)
      total == Len(last.calls)
  IN IF k <= n THEN k - 1
     ELSE IF k > total - n THEN total - k
     ELSE n

\* The context field of the Request that comes out of the first m
\* middleware when c goes in.
RECURSIVE Behind(_, _)
Behind(c, m) ==
  IF m = 0 THEN c
  ELSE LET before == Behind(c, m - 1)
       IN CASE Around[m].kind = "inject" ->
                 Append(IF before = NilContext THEN Background ELSE before, Around[m].id)
            [] Around[m].kind = "clear" -> NilContext
            [] OTHER -> before

Replacing(m) == { i \in 1..m : Around[i].kind \in {"inject", "clear"} }

(***************************************************************************)
(* C17: the Context() of the Request of every call of a dispatch is not    *)
(* nil, and where no middleware replaced it, it is the context Run was     *)
(* called with, or the background context if that was nil.                 *)
(***************************************************************************)
C17_ContextNeverNil ==
  last.ok =>
    \A k \in 1..Len(last.calls) :
      /\ RequestContext(last.calls[k].req) # NilContext
      /\ Replacing(Depth(k)) = {} => RequestContext(last.calls[k].req) = Supplied

\* Run was called with the nil context, and the selected route is a typed
\* one behind a middleware that hands on a Request of nil context.
C17_Witness ==
  /\ last.ok
  /\ last.ctx = NilContext
  /\ IsTyped(Selected)
  /\ \E i \in 1..Len(Around) : Around[i].kind = "clear"

\* Run was called with a context, and the selected route has no
\* middleware.
C17_PlainCase ==
  /\ last.ok
  /\ last.ctx # NilContext
  /\ Around = << >>
  /\ \E k \in 1..Len(last.calls) : last.calls[k].req.ctx = last.ctx

(***************************************************************************)
(* C18: the Request of every call of a dispatch has the Args, Params and   *)
(* Extra of the Request Run built, and the context that the middleware     *)
(* around that call made of Run's: a middleware sees the Request it was    *)
(* called on before and after next, and what it hands on is seen inside    *)
(* it only.                                                                *)
(***************************************************************************)
C18_WithContextCopies ==
  last.ok =>
    \A k \in 1..Len(last.calls) :
      /\ last.calls[k].req.Args = last.req.Args
      /\ last.calls[k].req.Params = last.req.Params
      /\ last.calls[k].req.Extra = last.req.Extra
      /\ last.calls[k].req.ctx = Behind(last.req.ctx, Depth(k))

\* The selected route is behind a middleware that injects a value, its
\* handler saw another context than the one Run built, and another route
\* is registered that no middleware wraps.
C18_Witness ==
  /\ last.ok
  /\ \E i \in 1..Len(Around) : Around[i].kind = "inject"
  /\ \E j \in RouteIdx : j # Selected /\ Len(Table[j].handler) = 1
  /\ \E k \in 1..Len(last.calls) :
       /\ last.calls[k].ev = "handler"
       /\ last.calls[k].req.ctx # last.req.ctx

\* The route the middleware does not wrap is selected.
C18_UnwrappedCase ==
  /\ last.ok
  /\ Around = << >>
  /\ \E j \in RouteIdx :
       j # Selected /\ \E i \in 1..Len(Table[j].handler) : Table[j].handler[i].kind = "inject"

(***************************************************************************)
(* Vocabulary of the properties: tokens and sort hints.                    *)
(***************************************************************************)
\* The integer tokens of the inputs and their values.
IsIntegerToken(p) == p \in { tokOne, tokMinusTwo, tokPlusTen }

IntegerValue(p) ==
  CASE p = tokOne -> 1
    [] p = tokMinusTwo -> 0 - 2
    [] p = tokPlusTen -> 10

\* The positions of the tokens that are not integers, in order.
RECURSIVE EmittedLoop(_, _)
EmittedLoop(parts, i) ==
  IF i > Len(parts) THEN << >>
  ELSE IF IsIntegerToken(parts[i]) THEN EmittedLoop(parts, i + 1)
  ELSE << i >> \o EmittedLoop(parts, i + 1)

Emitted(parts) == EmittedLoop(parts, 1)

IsWrapped(p) == Len(p) >= 2 /\ p[1] = "<" /\ p[Len(p)] = ">"

Interior(p) == [k \in 1..(Len(p) - 2) |-> p[k + 1]]

(***************************************************************************)
(* C19: the segments of a pattern are, in order, one for each token that   *)
(* is not an integer: a parameter named by the interior of a token in      *)
(* angle brackets, a literal of the text of any other; the sort hint of a  *)
(* segment is the value of the integer token just before its token, 0 if   *)
(* there is none.                                                          *)
(***************************************************************************)
C19_SegmentsOfTokens ==
  \A i \in RegIdx :
    regs[i].via = "Router" =>
      LET parts == Fields(regs[i].path)
          at == Emitted(parts)
          segs == routes[i].segments
      IN /\ Len(segs) = Len(at)
         /\ \A j \in 1..Len(at) :
              LET p == parts[at[j]]
              IN /\ IsWrapped(p) =>
                      segs[j].param = Interior(p) /\ segs[j].lit = EmptyString
                 /\ ~IsWrapped(p) =>
                      segs[j].lit = p /\ segs[j].param = EmptyString
                 /\ segs[j].sort =
                      IF at[j] > 1 /\ IsIntegerToken(parts[at[j] - 1])
                        THEN IntegerValue(parts[at[j] - 1])
                        ELSE 0

\* A pattern of a hinted literal followed by a token without a hint.
C19_Witness ==
  \E i \in RegIdx :
    /\ regs[i].via = "Router"
    /\ Len(Fields(regs[i].path)) = 3
    /\ IsIntegerToken(Fields(regs[i].path)[1])
    /\ Len(routes[i].segments) = 2
    /\ routes[i].segments[1].sort # 0

\* Two integer tokens in a row: the second is the hint.
C19_LastHintCase ==
  \E i \in RegIdx :
    /\ regs[i].via = "Router"
    /\ Len(Fields(regs[i].path)) = 3
    /\ IsIntegerToken(Fields(regs[i].path)[1])
    /\ IsIntegerToken(Fields(regs[i].path)[2])
    /\ Fields(regs[i].path)[1] # Fields(regs[i].path)[2]
    /\ Len(routes[i].segments) = 1

(***************************************************************************)
(* C20: had a route been registered with a pattern that differs from its   *)
(* own by one integer token more or less, the dispatch would have found    *)
(* the same ranks, selected the same position and built the same Params    *)
(* and Extra.  (Any number of insertions and removals is a chain of such   *)
(* steps.)                                                                 *)
(***************************************************************************)
RemoveAt(parts, k) == SubSeq(parts, 1, k - 1) \o SubSeq(parts, k + 1, Len(parts))

InsertAt(parts, k, p) == (SubSeq(parts, 1, k - 1) \o << p >>) \o SubSeq(parts, k, Len(parts))

\* The token lists one integer token away from parts.
HintVariants(parts) ==
  { RemoveAt(parts, k) : k \in { j \in 1..Len(parts) : IsIntegerToken(parts[j]) } }
    \cup { InsertAt(parts, k, p) : k \in 1..(Len(parts) + 1), p \in { tokOne, tokMinusTwo } }

\* The table with route i registered under the tokens parts instead.
Reregistered(i, parts) ==
  [Table EXCEPT ![i] =
     RouterHandle(<< >>, Join(parts, SP), Table[i].desc, Table[i].handler)[1]]

C20_HintsDoNotMatter ==
  last.called =>
    \A i \in RouteIdx :
      \A parts \in HintVariants(Fields(regs[i].path)) :
        LET other == RunResult(Reregistered(i, parts), last.ctx, last.argv)
        IN /\ other.ok = last.ok
           /\ other.ranks = last.ranks
           /\ other.idx = last.idx
           /\ other.req.Params = last.req.Params
           /\ other.req.Extra = last.req.Extra

\* The selected route has a parameter and a sort hint, tokens are left
\* over, and another route matches.
C20_Witness ==
  /\ last.ok
  /\ \E p \in 1..SegCount(Selected) : Table[Selected].segments[p].sort # 0
  /\ ParamPositions(Table[Selected].segments) # {}
  /\ last.req.Extra # << >>
  /\ \E j \in RouteIdx : j # Selected /\ Matches(j)

(***************************************************************************)
(* Vocabulary of the properties: the help listing.                         *)
(***************************************************************************)
EntryLines == { k \in 1..Len(help.lines) : help.lines[k].kind = "entry" }

\* The pattern of an entry line, without the padding.
Printed(k) == Join(Fields(help.lines[k].pat), SP)

\* The text of a route as the listing shows it.
Rendered(i) ==
  Join([k \in 1..Len(routes[i].segments) |->
          IF IsLiteral(routes[i].segments[k]) THEN routes[i].segments[k].lit
          ELSE (<< "<" >> \o routes[i].segments[k].param) \o << ">" >>], SP)

\* The hint and the text of each literal segment of a route, in order.
RECURSIVE KeyTokens(_, _)
KeyTokens(i, k) ==
  IF k > Len(routes[i].segments) THEN << >>
  ELSE IF IsLiteral(routes[i].segments[k])
    THEN << Itoa(routes[i].segments[k].sort), routes[i].segments[k].lit >>
           \o KeyTokens(i, k + 1)
    ELSE KeyTokens(i, k + 1)

SortKey(i) == Join(KeyTokens(i, 1), SP)

\* Every route there was is listed once, with its pattern and description.
ListsAllRoutes ==
  /\ Cardinality(EntryLines) = help.n
  /\ \A i \in 1..help.n :
       \E k \in EntryLines :
         /\ help.lines[k].idx = i
         /\ Printed(k) = Rendered(i)
         /\ help.lines[k].desc = routes[i].desc

FirstOf(S) == CHOOSE i \in S : \A j \in S : i <= j

Matching == { i \in RouteIdx : Matches(i) }

Finished == { c \in Calls : inflight[c].pc = "done" }

Alone(c) == RunResult(routes, inflight[c].ctx, inflight[c].argv)

C23_ConcurrentRunsAsAlone ==
  \A c \in Finished :
    LET r == inflight[c].result
    IN /\ r.ok = Alone(c).ok
       /\ r.idx = Alone(c).idx
       /\ r.req.Args = Alone(c).req.Args
       /\ r.req.Params = Alone(c).req.Params
       /\ r.req.Extra = Alone(c).req.Extra
       /\ r.calls = Alone(c).calls
       /\ r.ok => r.req.Args = inflight[c].argv

\* Two calls that ran inside each other's loops selected different routes
\* with different Params and Extra.
C23_Witness ==
  \E c, d \in Finished :
    /\ inflight[c].mixed /\ inflight[d].mixed
    /\ inflight[c].result.ok /\ inflight[d].result.ok
    /\ inflight[c].result.idx # inflight[d].result.idx
    /\ inflight[c].result.req.Params # inflight[d].result.req.Params
    /\ inflight[c].result.req.Extra # inflight[d].result.req.Extra

(***************************************************************************)
(* C24 as stated: of two routes that match the same argv, the one with     *)
(* more segments has the strictly higher rank.                             *)
(***************************************************************************)
BothMatchShorterFirst(i, j) ==
  /\ Matches(i) /\ Matches(j)
  /\ SegCount(i) < SegCount(j)

KindDiffers(i, j) ==
  { k \in 1..SegCount(i) :
      IsLiteral(Table[i].segments[k]) # IsLiteral(Table[j].segments[k]) }

ShorterHasFirstLiteral(i, j) ==
  /\ KindDiffers(i, j) # {}
  /\ IsLiteral(Table[i].segments[FirstOf(KindDiffers(i, j))])

C24_ShorterWinsCase ==
  /\ last.ok
  /\ \E j \in RouteIdx :
       /\ BothMatchShorterFirst(Selected, j)
       /\ ShorterHasFirstLiteral(Selected, j)

(***************************************************************************)
(* C25 as stated: every segment of every registered route is a literal     *)
(* with text and no name, or a parameter with a name and no text.          *)
(***************************************************************************)
IsLiteralOnly(s) == s.lit # EmptyString /\ s.param = EmptyString

IsParameterOnly(s) == s.param # EmptyString /\ s.lit = EmptyString

C25_AsStated ==
  \A i \in 1..Len(routes) : \A k \in 1..Len(routes[i].segments) :
    IsLiteralOnly(routes[i].segments[k]) \/ IsParameterOnly(routes[i].segments[k])

(***************************************************************************)
(* C25, amended: every segment of every registered route is a literal with *)
(* text and no name, or a parameter with a name and no text, except the    *)
(* segments of the token "<>", which have neither text nor name; no        *)
(* segment has both.                                                       *)
(***************************************************************************)
\* The tokens of the pattern of a registration: prefix, then path.
FullTokens(i) == regs[i].builder.prefix \o Fields(regs[i].path)

C25_OneKindUnlessNoName ==
  \A i \in RegIdx :
    LET parts == FullTokens(i)
        at == Emitted(parts)
        segs == routes[i].segments
    IN /\ Len(segs) = Len(at)
       /\ \A k \in 1..Len(at) :
            IF parts[at[k]] = tokNoName
              THEN segs[k].lit = EmptyString /\ segs[k].param = EmptyString
              ELSE IsLiteralOnly(segs[k]) \/ IsParameterOnly(segs[k])

\* A route registered on a Builder whose segments come from "<", from a
\* parameter and from "<>".
C25_Witness ==
  \E i \in RegIdx :
    /\ regs[i].via = "Builder"
    /\ \E k \in 1..Len(routes[i].segments) : routes[i].segments[k].lit = tokLess
    /\ \E k \in 1..Len(routes[i].segments) : IsParameterOnly(routes[i].segments[k])
    /\ \E k \in 1..Len(routes[i].segments) :
         routes[i].segments[k].lit = EmptyString /\ routes[i].segments[k].param = EmptyString

(***************************************************************************)
(* C26: the rank of a matching route of n segments, 1 <= n <= 32, has the  *)
(* code of position i (0-based) in bits 2*(31-i)+1 and 2*(31-i), 10 for a  *)
(* literal and 01 for a parameter, and no other bit: no shift is negative, *)
(* no two codes overlap, no bit is lost; routes of the same kinds have the *)
(* same rank, whatever their texts, names and hints and whatever argv.     *)
(***************************************************************************)
\* The bit that is 1 in the code of position k (1-based) of route i.
CodeBit(i, k) ==
  IF IsLiteral(Table[i].segments[k]) THEN 2 * (32 - k) + 1 ELSE 2 * (32 - k)

EncodedKinds(i) == { CodeBit(i, k) : k \in 1..SegCount(i) }

C26_RankEncodesKinds ==
  last.called =>
    \A i \in RouteIdx :
      Matches(i) =>
        /\ SegCount(i) >= 1 /\ SegCount(i) <= 32
        /\ RankOf(i) = EncodedKinds(i)
        /\ RankOf(i) \subseteq Word
        /\ Cardinality(RankOf(i)) = SegCount(i)
        /\ \A k \in 1..SegCount(i) : 2 * (32 - k) >= 0
        /\ \A j \in RouteIdx :
             (Matches(j) /\ SegCount(j) = SegCount(i) /\ SameKinds(i, j, SegCount(i)))
               => RankOf(j) = RankOf(i)

\* A route of 32 segments matches, its last code in the lowest two bits
\* and its first in the highest two.
C26_Witness ==
  /\ last.ok
  /\ SegCount(Selected) = 32
  /\ IsParameter(Table[Selected].segments[32])
  /\ 0 \in RankOf(Selected)
  /\ 63 \in RankOf(Selected)

\* Two matching routes of the same kinds differ in literal-free details:
\* the name of the parameter and the sort hint.
C26_SameKindsCase ==
  /\ last.ok
  /\ \E j \in RouteIdx :
       /\ j # Selected
       /\ Matches(j)
       /\ RankOf(j) = RankOf(Selected)
       /\ Table[j].segments # Table[Selected].segments

(***************************************************************************)
(* C27: a dispatch to a route of ContextBuilder.Handle with the middleware *)
(* m1..mn runs before-m1, ..., before-mn, the resolvers, the typed         *)
(* handler, after-mn, ..., after-m1.  The resolvers run after every        *)
(* "before", on the Request the innermost middleware passed on; when one   *)
(* fails the handler does not run and every "after" still does, with the   *)
(* error of the resolver as the result of next.                            *)
(***************************************************************************)
C27_TypedOnion ==
  (last.ok /\ regs[Selected].via = "ContextBuilder") =>
    LET mws == regs[Selected].builder.mws
        n == Len(mws)
        total == Len(last.calls)
        chain == UserOf(Table[Selected].handler).resolve
        f == FirstFailure(chain)
        inner == SubSeq(last.calls, n + 1, total - n)
        passed == [last.req EXCEPT !.ctx = Behind(last.req.ctx, n)]
    IN /\ total >= 2 * n + 2
       /\ \A k \in 1..n :
            /\ last.calls[k].ev = "before"
            /\ last.calls[k].id = mws[k].id
            /\ last.calls[total + 1 - k].ev = "after"
            /\ last.calls[total + 1 - k].id = mws[k].id
       /\ inner[1].ev = "handler"
       /\ inner[2].ev = "resolve"
       /\ \A j \in 2..Len(inner) :
            /\ inner[j].ev \in {"resolve", "body"}
            /\ inner[j].ev = "body" => j = Len(inner)
       /\ \A j \in 1..Len(inner) : inner[j].req = passed
       /\ IF f <= Len(chain)
            THEN /\ inner[Len(inner)].ev = "resolve"
                 /\ inner[Len(inner)].id = chain[f].id
                 /\ \A k \in 1..n : last.calls[total + 1 - k].err = chain[f].err
                 /\ last.err = chain[f].err
            ELSE /\ inner[Len(inner)].ev = "body"
                 /\ \A k \in 1..n :
                      last.calls[total + 1 - k].err = UserOf(Table[Selected].handler).ret
                 /\ last.err = UserOf(Table[Selected].handler).ret

\* The resolver failed behind two middleware, one of which replaced the
\* Request, and both saw its error.
C27_Witness ==
  /\ last.ok
  /\ regs[Selected].via = "ContextBuilder"
  /\ Len(regs[Selected].builder.mws) = 2
  /\ FirstFailure(UserOf(Table[Selected].handler).resolve)
       <= Len(UserOf(Table[Selected].handler).resolve)
  /\ last.calls[Len(last.calls)].ev = "after"
  /\ last.calls[Len(last.calls)].err = "boom"
  /\ last.calls[3].req # last.req

\* The resolver succeeded and the typed handler ran behind the middleware.
C27_SuccessCase ==
  /\ last.ok
  /\ regs[Selected].via = "ContextBuilder"
  /\ Len(regs[Selected].builder.mws) = 2
  /\ \E k \in 1..Len(last.calls) : last.calls[k].ev = "body"

(***************************************************************************)
(* C28: a step that registers a route adds exactly one route at the end of *)
(* the table, also when its pattern is there already, and leaves the       *)
(* routes before it as they were; no other step, Run and PrintHelp among   *)
(* them, changes the table.                                                *)
(***************************************************************************)
Registers == regs' # regs

RunReturns == last' # last

Prints == help' # help

AppendsOne ==
  /\ Len(routes') = Len(routes) + 1
  /\ \A i \in 1..Len(routes) : routes'[i] = routes[i]

C28_AppendOnly ==
  [][ /\ Registers => AppendsOne
      /\ ~Registers => routes' = routes
      /\ (RunReturns \/ Prints) => routes' = routes ]_vars

\* The same pattern was registered on a Builder and on the Router with
\* the same handler, with a dispatch in between, and the help was printed
\* after the first.
C28_Witness ==
  /\ Len(routes) = 2
  /\ routes[1] = routes[2]
  /\ regs[1].via # regs[2].via
  /\ last.called
  /\ Len(last.routes) = 1
  /\ help.called
  /\ help.n >= 1

(***************************************************************************)
(* C29: a route whose pattern has no token but integers has no segment,    *)
(* its rank is 0 for every argv, the empty one included, and it is never   *)
(* selected; Run on a table of such routes only returns the error "no      *)
(* matching command" and calls no handler.                                 *)
(***************************************************************************)
\* The pattern of registration i has no token that makes a segment.
NoSegmentPattern(i) ==
  \A k \in 1..Len(FullTokens(i)) : IsIntegerToken(FullTokens(i)[k])

C29_ZeroSegmentsNeverSelected ==
  last.called =>
    /\ \A i \in RouteIdx :
         NoSegmentPattern(i) =>
           /\ SegCount(i) = 0
           /\ RankOf(i) = ZeroWord
           /\ Selected # i
    /\ (\A i \in RouteIdx : NoSegmentPattern(i)) =>
         /\ ~last.ok
         /\ last.err = NoMatchError
         /\ last.calls = << >>

\* Run with the empty argv on a table of two routes without segments, one
\* of Builder.Handle("") and one of a pattern of integer tokens.
C29_Witness ==
  /\ last.called
  /\ last.argv = << >>
  /\ Len(Table) = 2
  /\ \A i \in RouteIdx : NoSegmentPattern(i)
  /\ \E i \in RouteIdx : regs[i].via = "Builder" /\ regs[i].path = EmptyString
  /\ \E i \in RouteIdx : regs[i].via = "Router" /\ Len(FullTokens(i)) = 2
  /\ last.err = NoMatchError

\* A route without segments stands before the literal route selected.
C29_PassedOverCase ==
  /\ last.ok
  /\ Selected = 2
  /\ NoSegmentPattern(1)

(***************************************************************************)
(* C30: two distinct routes that match the same argv have equal rank       *)
(* exactly when they have the same number of segments and the same kind at *)
(* every position; between such routes, which may differ in parameter      *)
(* names and sort hints, the one registered earlier gives the handler and  *)
(* the names of the Params.                                                *)
(***************************************************************************)
SameShape(i, j) == SegCount(i) = SegCount(j) /\ SameKinds(i, j, SegCount(i))

\* The names of the parameters of route i.
ParamNames(i) ==
  { Table[i].segments[k].param :
      k \in { p \in 1..SegCount(i) : IsParameter(Table[i].segments[p]) } }

C30_TieIffSameShape ==
  last.called =>
    /\ \A i, j \in RouteIdx :
         (i # j /\ Matches(i) /\ Matches(j)) =>
           (RankOf(i) = RankOf(j) <=> SameShape(i, j))
    /\ last.ok =>
         /\ \A j \in RouteIdx : (Matches(j) /\ SameShape(Selected, j)) => Selected <= j
         /\ DOMAIN last.req.Params.kv = ParamNames(Selected)
         /\ \A k \in HandlerCalls :
              last.calls[k].id = UserOf(Table[Selected].handler).id

\* Two routes tie that differ in parameter name and sort hint and have
\* different handlers; the earlier gives the name.
C30_Witness ==
  /\ last.ok
  /\ \E j \in RouteIdx :
       /\ j > Selected
       /\ Matches(j)
       /\ RankOf(j) = RankOf(Selected)
       /\ ParamNames(j) # ParamNames(Selected)
       /\ ParamNames(j) # {}
       /\ Table[j].segments[1].sort # Table[Selected].segments[1].sort
       /\ UserOf(Table[j].handler).id # UserOf(Table[Selected].handler).id
       /\ DOMAIN last.req.Params.kv = ParamNames(Selected)
  /\ \E k \in HandlerCalls : last.calls[k].id = UserOf(Table[Selected].handler).id

====
